---- MODULE Spec2Model ----
(***************************************************************************)
(* A model of src/problems/airline-management-system.go: the seat table of *)
(* a Flight and Flight.BookSeat, FlightSearch, the AirlineManagementSystem *)
(* facade and the BookingManager store.                                    *)
(*                                                                         *)
(* Go pointers are modelled as identifiers: a *Flight is an element of     *)
(* FlightIds and heap[f] is the Flight it points to.  A Go slice is a      *)
(* sequence; index i of the slice is index i + 1 of the sequence.          *)
(***************************************************************************)
EXTENDS Integers, Sequences, FiniteSets, TLC

\* ------------------------------------------------------------------ bounds
MaxSeats   == 2      \* largest Aircraft.TotalSeats
NumCallers == 2      \* goroutines calling Flight.BookSeat
MaxCalls   == 3      \* BookSeat calls issued in one run
MaxLen     == 3      \* longest flights / aircrafts slice of the facade
NumFlights == 3      \* Flight objects of the facade and search specifications

\* the Flight objects of a run (pointers)
FlightIds == {1, 2}
Callers   == 1..NumCallers

VARIABLES
  heap,         \* heap[f]: the Flight that the pointer f refers to
  pc,           \* pc[c]: where goroutine c stands inside Flight.BookSeat
  arg,          \* arg[c]: the receiver and seatNumber of c's running call
  pre,          \* pre[c]: the IsBooked flags of c's flight when its running call began
  last,         \* the BookSeat call that returned last: receiver, seatNumber, result
  issued,       \* number of BookSeat calls begun so far
  calls,        \* calls[f][s]: completed BookSeat(s) calls on flight f, s in range
  wins,         \* wins[f][s]: how many of them returned true
  bookings,     \* bookingManagerInstance.bookings: booking id -> Booking
  got,          \* the last GetBooking call: the id asked for and what it returned
  amsFlights,   \* ams.flights
  amsAircrafts, \* ams.aircrafts
  fsFlights,    \* the flights slice held by the FlightSearch object
  found,        \* the last SearchFlights call: its arguments and its result
  written,      \* written[id]: the Booking of the last AddBooking call with that
                \* id, and whether a call replaced a different Booking under it
  payments,     \* paymentProcessorInstance.payments: payment id -> Payment
  processed,    \* processed[id]: the Payment of the last ProcessPayment call with
                \* that id, and whether a call replaced a different Payment under it
  opc,          \* opc[c]: where caller c stands in a getter of a singleton
  onceDone,     \* onceDone[g]: the done flag of the sync.Once of getter g
  onceMu,       \* onceMu[g]: the caller holding the mutex of that sync.Once, or 0
  instance,     \* instance[g]: bookingManagerInstance / paymentProcessorInstance:
                \* 0 for nil, else the number of the object it points to
  made,         \* made[g]: how many store objects the getter has constructed
  rets,         \* rets[g]: the values calls of getter g have returned
  linked,       \* the inputs of the first Booking stored under each booking id for
                \* a seat whose reservation had returned true, and of the first
                \* Payment processed under each payment id after that
  op,           \* op[c]: the facade or store operation goroutine c is inside, the
                \* statement it stands at, its argument and its local values
  mu,           \* mu[l]: the sync.RWMutex l: the goroutine holding its write side
                \* (0 for none) and the goroutines holding its read side
  hist,         \* the calls of the facade begun so far, and the flights and
                \* aircraft whose AddFlight / AddAircraft call has returned
  facades,      \* the AirlineManagementSystem objects built so far, in order
  logger,       \* singleton tutorial: the package variables of package logger
                \* and where each goroutine stands in GetInstance
  publisher,    \* observer tutorial: the NewsPublisher and what was printed
  turnstile     \* state tutorial: the Turnstile and what was printed

seatVars   == <<pc, arg, pre, last, issued, calls, wins>>
storeVars  == <<bookings, got, written>>
facadeVars == <<amsFlights, amsAircrafts>>
searchVars == <<fsFlights, found>>
payVars    == <<payments, processed>>
onceVars   == <<opc, onceDone, onceMu, instance, made, rets>>

lockVars   == <<op, mu, hist>>
sideVars   == <<facades, logger, publisher, turnstile>>

vars == <<heap, seatVars, storeVars, facadeVars, searchVars, payVars,
          onceVars, linked, lockVars, sideVars>>

\* ---------------------------------------------------------------- records
\* time.Time as the wall-clock fields its Year(), Month(), Day() methods read
Time(y, m, d, h) == [year |-> y, month |-> m, day |-> d, hour |-> h]

NewAircraft(tailNumber, model, totalSeats) ==
  [TailNumber |-> tailNumber, Model |-> model, TotalSeats |-> totalSeats]

NewFlightZeroBased(flightNumber, source, destination, departure, arrival, aircraft) ==
  [FlightNumber |-> flightNumber,
   Source       |-> source,
   Destination  |-> destination,
   Departure    |-> departure,
   Arrival      |-> arrival,
   Aircraft     |-> aircraft,
   Seats        |-> [i \in 1..aircraft.TotalSeats |->
                       [SeatNumber |-> i - 1, IsBooked |-> FALSE]]]

NewFlight(flightNumber, source, destination, departure, arrival, aircraft) ==
  [FlightNumber |-> flightNumber,
   Source       |-> source,
   Destination  |-> destination,
   Departure    |-> departure,
   Arrival      |-> arrival,
   Aircraft     |-> aircraft,
   Seats        |-> [i \in 1..aircraft.TotalSeats |->
                       [SeatNumber |-> (i - 1) + 1, IsBooked |-> FALSE]]]

\* len(f.Seats)
NumSeats(f) == Len(heap[f].Seats)

\* the IsBooked flag of every seat of flight f, by seat number
Flags(f) == [i \in 1..NumSeats(f) |-> heap[f].Seats[i].IsBooked]

\* seat numbers handed to BookSeat: a negative one, zero, every valid one and
\* one past the largest seat table
SeatArgs == (-1)..(MaxSeats + 1)

\* ------------------------------------------------------- Flight.BookSeat
\* seatNumber < 1 || seatNumber > len(f.Seats)
OutOfRange(f, s) == s < 1 \/ s > NumSeats(f)

NoArg == [flight |-> 0, seat |-> 0]

Returned(f, s, b) == [flight |-> f, seat |-> s, result |-> b]

RejectSeatTrue(f, s) ==
  /\ last' = Returned(f, s, TRUE)
  /\ UNCHANGED <<heap, pc, arg, pre, calls, wins>>

\* line 143: return false
RejectSeat(f, s) ==
  /\ last' = Returned(f, s, FALSE)
  /\ UNCHANGED <<heap, pc, arg, pre, calls, wins>>

\* Entry of BookSeat and its range check (lines 141-144).  len(f.Seats) never
\* changes after NewFlight, so the check is one step with the call.
BookSeatL141(c, f, s) ==
  /\ pc[c] = "idle"
  /\ issued < MaxCalls
  /\ issued' = issued + 1
  /\ IF OutOfRange(f, s)
       THEN RejectSeat(f, s)
       ELSE /\ pc' = [pc EXCEPT ![c] = "L145"]
            /\ arg' = [arg EXCEPT ![c] = [flight |-> f, seat |-> s]]
            /\ pre' = [pre EXCEPT ![c] = Flags(f)]
            /\ UNCHANGED <<heap, last, calls, wins>>

\* what a step of Flight.BookSeat alone leaves as it is
seatFrame == <<storeVars, facadeVars, searchVars, payVars, onceVars, linked,
               lockVars, sideVars>>

BookSeatCall(c, f, s) == BookSeatL141(c, f, s) /\ UNCHANGED seatFrame

\* the return of a call on a seat in range, with the history it leaves
Return(c, b) ==
  LET f == arg[c].flight
      s == arg[c].seat
  IN /\ pc' = [pc EXCEPT ![c] = "idle"]
     /\ last' = Returned(f, s, b)
     /\ calls' = [calls EXCEPT ![f][s] = @ + 1]
     /\ wins' = [wins EXCEPT ![f][s] = IF b THEN @ + 1 ELSE @]
     /\ arg' = [arg EXCEPT ![c] = NoArg]
     /\ pre' = [pre EXCEPT ![c] = <<>>]

RejectBookedTrue(c) ==
  /\ pc[c] = "L145"
  /\ IF heap[arg[c].flight].Seats[(arg[c].seat - 1) + 1].IsBooked
       THEN Return(c, TRUE)
       ELSE /\ pc' = [pc EXCEPT ![c] = "L148"]
            /\ UNCHANGED <<arg, pre, last, calls, wins>>
  /\ UNCHANGED <<heap, issued>>

BookSeatReadBlind(c) ==
  /\ pc[c] = "L145"
  /\ pc' = [pc EXCEPT ![c] = "L148"]
  /\ UNCHANGED <<heap, arg, pre, last, issued, calls, wins>>

\* lines 145-147: the unsynchronised read of f.Seats[seatNumber-1].IsBooked
BookSeatL145(c) ==
  /\ pc[c] = "L145"
  /\ IF heap[arg[c].flight].Seats[(arg[c].seat - 1) + 1].IsBooked
       THEN Return(c, FALSE)
       ELSE /\ pc' = [pc EXCEPT ![c] = "L148"]
            /\ UNCHANGED <<arg, pre, last, calls, wins>>
  /\ UNCHANGED <<heap, issued>>

BookSeatRead(c) == BookSeatL145(c) /\ UNCHANGED seatFrame

BookSeatWriteLost(c) ==
  /\ pc[c] = "L148"
  /\ Return(c, TRUE)
  /\ UNCHANGED <<heap, issued>>

BookSeatWriteShared(c) ==
  /\ pc[c] = "L148"
  /\ heap' = [f \in DOMAIN heap |->
                IF heap[f].Aircraft = heap[arg[c].flight].Aircraft
                  THEN [heap[f] EXCEPT
                          !.Seats[(arg[c].seat - 1) + 1].IsBooked = TRUE]
                  ELSE heap[f]]
  /\ Return(c, TRUE)
  /\ UNCHANGED issued

BookSeatWriteToggle(c) ==
  /\ pc[c] = "L148"
  /\ heap' = [heap EXCEPT
                ![arg[c].flight].Seats[(arg[c].seat - 1) + 1].IsBooked =
                  ~heap[arg[c].flight].Seats[(arg[c].seat - 1) + 1].IsBooked]
  /\ Return(c, TRUE)
  /\ UNCHANGED issued

BookSeatWriteReroutes(c) ==
  /\ pc[c] = "L148"
  /\ heap' = [heap EXCEPT
                ![arg[c].flight].Seats[(arg[c].seat - 1) + 1].IsBooked = TRUE,
                ![arg[c].flight].Destination = "LAX"]
  /\ Return(c, TRUE)
  /\ UNCHANGED issued

\* lines 148-149: the unsynchronised write of the flag, and return true
BookSeatL148(c) ==
  /\ pc[c] = "L148"
  /\ heap' = [heap EXCEPT
                ![arg[c].flight].Seats[(arg[c].seat - 1) + 1].IsBooked = TRUE]
  /\ Return(c, TRUE)
  /\ UNCHANGED issued

BookSeatWrite(c) == BookSeatL148(c) /\ UNCHANGED seatFrame

\* ------------------------------------------------------------------ Init
Nil == [nil |-> TRUE]

Aircrafts == {NewAircraft("N1", "A320", n) : n \in 0..MaxSeats}

Dep0 == Time(2024, 1, 1, 8)
Arr0 == Time(2024, 1, 1, 14)

\* no BookSeat call has been made
SeatIdle ==
  /\ pc = [c \in Callers |-> "idle"]
  /\ arg = [c \in Callers |-> NoArg]
  /\ pre = [c \in Callers |-> <<>>]
  /\ last = Returned(0, 0, FALSE)
  /\ issued = 0
  /\ calls = [f \in DOMAIN heap |-> [s \in 1..NumSeats(f) |-> 0]]
  /\ wins = [f \in DOMAIN heap |-> [s \in 1..NumSeats(f) |-> 0]]

\* GetBookingManager: bookings: make(map[string]*Booking)
StoreEmpty ==
  /\ bookings = <<>>
  /\ got = [id |-> "", result |-> Nil]
  /\ written = <<>>

\* GetPaymentProcessor: payments: make(map[string]*Payment)
PayEmpty ==
  /\ payments = <<>>
  /\ processed = <<>>

\* the two getters of the singletons, each with its sync.Once and its instance
Getters == {"GetBookingManager", "GetPaymentProcessor"}

NoGetter == [getter |-> "", at |-> "idle"]

\* lines 37-38: NewAirlineManagementSystem has called both getters, which built
\* the two stores
Singletons ==
  /\ opc = [c \in Callers |-> NoGetter]
  /\ onceDone = [g \in Getters |-> TRUE]
  /\ onceMu = [g \in Getters |-> 0]
  /\ instance = [g \in Getters |-> 1]
  /\ made = [g \in Getters |-> 1]
  /\ rets = [g \in Getters |-> {1}]

NotLinked == linked = [booking |-> <<>>, payment |-> <<>>]

\* the three sync.RWMutex of the program: ams.mu (line 30), bm.mu (line 82) and
\* pp.mu (line 213)
Locks == {"ams.mu", "bm.mu", "pp.mu"}

NoOp == [name |-> "", at |-> "idle", arg |-> Nil, local |-> Nil]

\* no goroutine is inside an operation, every RWMutex is free (its zero value)
Unlocked ==
  /\ op = [c \in Callers |-> NoOp]
  /\ mu = [l \in Locks |-> [writer |-> 0, readers |-> {}]]
  /\ hist = [started |-> 0, flights |-> <<>>, aircrafts |-> <<>>]

\* the singleton tutorial's package logger in one of its variants: instance is
\* 0 for nil, else the number of the Logger it points to
Variants == {"once", "mutex", "eager", "simple"}

NewLogger(variant) ==
  [variant  |-> variant,
   instance |-> IF variant = "eager" THEN 1 ELSE 0,
   made     |-> IF variant = "eager" THEN 1 ELSE 0,
   done     |-> FALSE,
   mu       |-> 0,
   at       |-> [c \in Callers |-> "idle"],
   started  |-> 0,
   rets     |-> {}]

\* publisher := &NewsPublisher{}
NewNewsPublisher == [observers |-> <<>>, printed |-> <<>>, detached |-> {}]

\* NewTurnstile
NewTurnstile == [state |-> "Locked", printed |-> <<>>]

\* no facade has been built, and the tutorials' programs have not run
Aside ==
  /\ facades = <<>>
  /\ logger = NewLogger("once")
  /\ publisher = NewNewsPublisher
  /\ turnstile = NewTurnstile

NoSearch == [source |-> "", destination |-> "", date |-> Nil, results |-> <<>>]

\* NewFlightSearch: the FlightSearch keeps the slice it is given
NewFlightSearch(flights) == flights

\* NewAirlineManagementSystem: two empty slices, and a FlightSearch built over
\* the (empty) flights slice of that moment
NewAirlineManagementSystem ==
  /\ amsFlights = <<>>
  /\ amsAircrafts = <<>>
  /\ fsFlights = NewFlightSearch(amsFlights)
  /\ found = NoSearch

Init ==
  /\ \E ac \in [FlightIds -> Aircrafts] :
       heap = [f \in FlightIds |-> NewFlight(f, "SFO", "JFK", Dep0, Arr0, ac[f])]
  /\ SeatIdle
  /\ StoreEmpty
  /\ PayEmpty
  /\ Singletons
  /\ NotLinked
  /\ Unlocked
  /\ Aside
  /\ NewAirlineManagementSystem

\* goroutines call BookSeat on any flight with any seat number, in any interleaving
Next ==
  \/ \E c \in Callers, f \in FlightIds, s \in SeatArgs : BookSeatCall(c, f, s)
  \/ \E c \in Callers : BookSeatRead(c)
  \/ \E c \in Callers : BookSeatWrite(c)

Spec == Init /\ [][Next]_vars

\* the same calls one after the other: a call begins only when none is running
SeqBookSeatCall(c, f, s) ==
  /\ \A d \in Callers : pc[d] = "idle"
  /\ BookSeatCall(c, f, s)

SeqNext ==
  \/ \E c \in Callers, f \in FlightIds, s \in SeatArgs : SeqBookSeatCall(c, f, s)
  \/ \E c \in Callers : BookSeatRead(c)
  \/ \E c \in Callers : BookSeatWrite(c)

SeqSpec == Init /\ [][SeqNext]_vars

\* --------------------------------------------------------- BookingManager
BookingIds == {"B1", "B2"}
Passengers == {"P1", "P2"}
\* the values time.Now() may return
Instants   == {Dep0, Arr0}

\* NewBooking; now is the value of time.Now()
NewBooking(bookingID, flight, passenger, seatNumber, now) ==
  [BookingID   |-> bookingID,
   Flight      |-> flight,
   Passenger   |-> passenger,
   SeatNumber  |-> seatNumber,
   BookingTime |-> now]

\* the record of an AddBooking call in the history written
Store(booking) ==
  [id \in DOMAIN written \cup {booking.BookingID} |->
     IF id = booking.BookingID
       THEN [last     |-> booking,
             replaced |-> /\ id \in DOMAIN written
                          /\ \/ written[id].replaced
                             \/ written[id].last # booking]
       ELSE written[id]]

\* the linkage history after an AddBooking call: the flight, passenger and seat
\* of the first Booking stored under an id for a seat whose reservation
\* (Flight.BookSeat) had returned true
LinkBooking(booking) ==
  IF /\ booking.BookingID \notin DOMAIN linked.booking
     /\ wins[booking.Flight][booking.SeatNumber] >= 1
    THEN [linked EXCEPT !.booking =
            [id \in DOMAIN linked.booking \cup {booking.BookingID} |->
               IF id = booking.BookingID
                 THEN [flight    |-> booking.Flight,
                       passenger |-> booking.Passenger,
                       seat      |-> booking.SeatNumber]
                 ELSE linked.booking[id]]]
    ELSE linked

AddBookingKeepFirst(booking) ==
  /\ bookings' = IF booking.BookingID \in DOMAIN bookings
                   THEN bookings
                   ELSE [id \in DOMAIN bookings \cup {booking.BookingID} |->
                           IF id = booking.BookingID THEN booking ELSE bookings[id]]
  /\ written' = Store(booking)
  /\ linked' = LinkBooking(booking)

AddBookingEvicts(booking) ==
  /\ bookings' = [id \in {booking.BookingID} |-> booking]
  /\ written' = Store(booking)
  /\ linked' = LinkBooking(booking)

\* bm.bookings[booking.BookingID] = booking, under bm.mu.Lock()
AddBookingL102(booking) ==
  /\ bookings' = [id \in DOMAIN bookings \cup {booking.BookingID} |->
                    IF id = booking.BookingID THEN booking ELSE bookings[id]]
  /\ written' = Store(booking)
  /\ linked' = LinkBooking(booking)

AddBooking(booking) ==
  /\ AddBookingL102(booking)
  /\ UNCHANGED <<heap, got, seatVars, facadeVars, searchVars, payVars, onceVars,
                 lockVars, sideVars>>

\* bm.bookings[bookingID]: the value stored under the key, nil for a missing key
BookingAt(bookingID) ==
  IF bookingID \in DOMAIN bookings THEN bookings[bookingID] ELSE Nil

GetBookingInserts(bookingID) ==
  /\ bookings' = [id \in DOMAIN bookings \cup {bookingID} |->
                    IF id \in DOMAIN bookings THEN bookings[id]
                    ELSE [BookingID |-> "", Flight |-> 0, Passenger |-> "",
                          SeatNumber |-> 0, BookingTime |-> Nil]]
  /\ got' = [id |-> bookingID, result |-> bookings'[bookingID]]
  /\ UNCHANGED written

\* return bm.bookings[bookingID], under bm.mu.RLock()
GetBookingL108(bookingID) ==
  /\ got' = [id |-> bookingID, result |-> BookingAt(bookingID)]
  /\ UNCHANGED <<bookings, written>>

GetBooking(bookingID) ==
  /\ GetBookingL108(bookingID)
  /\ UNCHANGED <<heap, seatVars, facadeVars, searchVars, payVars,
                 onceVars, linked, lockVars, sideVars>>

\* every flight flies an aircraft of MaxSeats seats
StoreInit ==
  /\ heap = [f \in FlightIds |->
               NewFlight(f, "SFO", "JFK", Dep0, Arr0,
                         NewAircraft("N1", "A320", MaxSeats))]
  /\ SeatIdle
  /\ StoreEmpty
  /\ PayEmpty
  /\ Singletons
  /\ NotLinked
  /\ Unlocked
  /\ Aside
  /\ NewAirlineManagementSystem

\* the Bookings callers build with NewBooking
Bookings ==
  {NewBooking(id, f, p, s, now) :
     id \in BookingIds, f \in FlightIds, p \in Passengers,
     s \in 1..MaxSeats, now \in Instants}

\* callers build Bookings with NewBooking and hand them to the store
StoreNext ==
  \/ \E booking \in Bookings : AddBooking(booking)
  \/ \E id \in BookingIds : GetBooking(id)

StoreSpec == StoreInit /\ [][StoreNext]_vars

\* ----------------------------------------------------------- FlightSearch
\* lines 166-169: same source, same destination, same calendar day
MatchesNoMonth(flight, source, destination, date) ==
  /\ flight.Source = source
  /\ flight.Destination = destination
  /\ flight.Departure.year = date.year
  /\ flight.Departure.day = date.day

Matches(flight, source, destination, date) ==
  /\ flight.Source = source
  /\ flight.Destination = destination
  /\ flight.Departure.year = date.year
  /\ flight.Departure.month = date.month
  /\ flight.Departure.day = date.day

CollectFront(results, flight) == <<flight>> \o results

\* line 170: results = append(results, flight)
Collect(results, flight) == Append(results, flight)

\* lines 164-173: the loop over fs.flights from index i on
RECURSIVE SearchLoop(_, _, _, _, _, _)
SearchLoop(flights, i, results, source, destination, date) ==
  IF i > Len(flights)
    THEN results
    ELSE SearchLoop(flights, i + 1,
                    IF Matches(heap[flights[i]], source, destination, date)
                      THEN Collect(results, flights[i])
                      ELSE results,
                    source, destination, date)

SearchFlightsInPlace(source, destination, date) ==
  LET results == SearchLoop(fsFlights, 1, <<>>, source, destination, date) IN
  /\ found' = [source |-> source, destination |-> destination, date |-> date,
               results |-> results]
  /\ fsFlights' = results \o SubSeq(fsFlights, Len(results) + 1, Len(fsFlights))
  /\ UNCHANGED <<heap, seatVars, storeVars, facadeVars, payVars,
                 onceVars, linked, lockVars, sideVars>>

\* FlightSearch.SearchFlights, and AirlineManagementSystem.SearchFlights, which
\* only forwards to ams.flightSearch
SearchFlights(source, destination, date) ==
  /\ found' = [source |-> source, destination |-> destination, date |-> date,
               results |-> SearchLoop(fsFlights, 1, <<>>, source, destination, date)]
  /\ UNCHANGED <<heap, fsFlights, seatVars, storeVars, facadeVars, payVars,
                 onceVars, linked, lockVars, sideVars>>

\* ------------------------------------------------ AirlineManagementSystem
Catalog == 1..NumFlights

\* route and departure of the flights: the same route on one day at two hours,
\* on the next day, in the next month, in the next year, and two other routes
Schedules ==
  <<[source |-> "SFO", destination |-> "JFK", departure |-> Time(2024, 1, 1, 20)],
    [source |-> "SFO", destination |-> "JFK", departure |-> Time(2024, 1, 2, 8)],
    [source |-> "SFO", destination |-> "LAX", departure |-> Time(2024, 1, 1, 8)],
    [source |-> "SFO", destination |-> "JFK", departure |-> Time(2024, 1, 1, 8)],
    [source |-> "SFO", destination |-> "JFK", departure |-> Time(2024, 2, 1, 8)],
    [source |-> "SFO", destination |-> "JFK", departure |-> Time(2025, 1, 1, 8)],
    [source |-> "LAX", destination |-> "JFK", departure |-> Time(2024, 1, 1, 8)]>>

Scheduled(f, sch) ==
  NewFlight(f, sch.source, sch.destination, sch.departure, Arr0,
            NewAircraft("N1", "A320", 1))

\* the searches callers make
Queries ==
  {[source |-> "SFO", destination |-> "JFK", date |-> Time(2024, 1, 1, 0)],
   [source |-> "SFO", destination |-> "JFK", date |-> Time(2024, 1, 2, 0)],
   [source |-> "LAX", destination |-> "JFK", date |-> Time(2024, 1, 1, 0)]}

\* ams.flights = append(ams.flights, flight), under ams.mu.Lock()
AddFlight(flight) ==
  /\ Len(amsFlights) < MaxLen
  /\ amsFlights' = Append(amsFlights, flight)
  /\ UNCHANGED <<heap, amsAircrafts, seatVars, storeVars, searchVars, payVars,
                 onceVars, linked, lockVars, sideVars>>

\* ams.aircrafts = append(ams.aircrafts, aircraft), under ams.mu.Lock()
AddAircraft(aircraft) ==
  /\ Len(amsAircrafts) < MaxLen
  /\ amsAircrafts' = Append(amsAircrafts, aircraft)
  /\ UNCHANGED <<heap, amsFlights, seatVars, storeVars, searchVars, payVars,
                 onceVars, linked, lockVars, sideVars>>

\* a new facade; flight f of the catalog has the f-th schedule
FacadeInit ==
  /\ heap = [f \in Catalog |->
               Scheduled(f, Schedules[((f - 1) % Len(Schedules)) + 1])]
  /\ SeatIdle
  /\ StoreEmpty
  /\ PayEmpty
  /\ Singletons
  /\ NotLinked
  /\ Unlocked
  /\ Aside
  /\ NewAirlineManagementSystem

FacadeNext ==
  \/ \E f \in Catalog : AddFlight(f)
  \/ \E a \in Aircrafts : AddAircraft(a)
  \/ \E q \in Queries : SearchFlights(q.source, q.destination, q.date)

FacadeSpec == FacadeInit /\ [][FacadeNext]_vars

\* a FlightSearch built by NewFlightSearch over a slice of n flights with any
\* schedules, in any order
SearchInit ==
  /\ \E n \in 0..NumFlights : \E sch \in [1..n -> 1..Len(Schedules)] :
       /\ heap = [f \in 1..n |-> Scheduled(f, Schedules[sch[f]])]
       /\ fsFlights = NewFlightSearch([i \in 1..n |-> i])
  /\ SeatIdle
  /\ StoreEmpty
  /\ PayEmpty
  /\ Singletons
  /\ NotLinked
  /\ Unlocked
  /\ Aside
  /\ amsFlights = <<>>
  /\ amsAircrafts = <<>>
  /\ found = NoSearch

SearchNext ==
  \E q \in Queries : SearchFlights(q.source, q.destination, q.date)

SearchSpec == SearchInit /\ [][SearchNext]_vars

\* ------------------------------------------------- claims: Flight.BookSeat
\* goroutine c's running call returns in this step
Returns(c) == pc[c] # "idle" /\ pc'[c] = "idle"

AllReturned == \A c \in Callers : pc[c] = "idle"

\* C1: under every interleaving of BookSeat calls, at most one call for a seat
\* of a flight ever returns true (no seat is double-booked).
C1_NoDoubleBooking ==
  \A f \in FlightIds : \A s \in 1..NumSeats(f) : wins[f][s] <= 1

\* C2: once every seat 1..N of a flight has been targeted by at least two calls
\* and all calls have returned, each seat has exactly one successful call (N
\* successes in all, every other call a failure).
C2_ExactlyNSuccesses ==
  \A f \in FlightIds :
    (/\ AllReturned
     /\ NumSeats(f) >= 1
     /\ \A s \in 1..NumSeats(f) : calls[f][s] >= 2)
    => \A s \in 1..NumSeats(f) : wins[f][s] = 1

\* C3: with calls made one after the other on a fresh flight, a BookSeat(s)
\* call returns true exactly when it is the first call for seat s: the first
\* returns true, the second and every later one false.
C3_TrueThenFalse ==
  [][\A c \in Callers :
       Returns(c) =>
         last'.result = (calls[arg[c].flight][arg[c].seat] = 0)]_vars

C3_Witness ==
  \E f \in FlightIds : \E s \in 1..NumSeats(f) :
    calls[f][s] >= 3 /\ wins[f][s] = 1 /\ last = Returned(f, s, FALSE)

\* C4: a BookSeat call with a seat number outside [1, N] returns false at once
\* and leaves the booked flag of every seat unchanged.
C4_OutOfRangeRejected ==
  [][issued' # issued =>
       \A f \in FlightIds, s \in SeatArgs :
         (OutOfRange(f, s) /\ \E c \in Callers : BookSeatCall(c, f, s)) =>
           /\ last' = Returned(f, s, FALSE)
           /\ pc' = pc
           /\ \A g \in FlightIds : Flags(g)' = Flags(g)]_vars

C4_Witness ==
  \E f \in FlightIds :
    /\ NumSeats(f) >= 1
    /\ \E s \in 1..NumSeats(f) : Flags(f)[s]
    /\ last = Returned(f, NumSeats(f) + 1, FALSE)

\* C5: a call BookSeat(s) with s in [1, N] made while seat s is not booked
\* returns true, seat s becomes booked and every other seat flag of every
\* flight is as it was when the call was made.
C5_BooksFreeSeat ==
  [][\A c \in Callers, f \in FlightIds, s \in SeatArgs :
       (Returns(c) /\ arg[c] = [flight |-> f, seat |-> s] /\ ~pre[c][s]) =>
         /\ last' = Returned(f, s, TRUE)
         /\ Flags(f)' = [pre[c] EXCEPT ![s] = TRUE]
         /\ \A g \in FlightIds \ {f} : Flags(g)' = Flags(g)]_vars

C5_Witness ==
  \E f \in FlightIds : \E s, t \in 1..NumSeats(f) :
    /\ s # t
    /\ last = Returned(f, s, TRUE)
    /\ Flags(f)[s]
    /\ ~Flags(f)[t]

\* C6: a call BookSeat(s) made while seat s is already booked returns false
\* and changes no seat flag.
C6_BookedSeatRejected ==
  [][\A c \in Callers :
       (Returns(c) /\ pre[c][arg[c].seat]) =>
         /\ pc[c] = "L145"
         /\ last' = Returned(arg[c].flight, arg[c].seat, FALSE)
         /\ \A g \in FlightIds : Flags(g)' = Flags(g)]_vars

C6_Witness ==
  \E f \in FlightIds : \E s, t \in 1..NumSeats(f) :
    /\ s # t
    /\ last = Returned(f, s, FALSE)
    /\ calls[f][s] = 2
    /\ Flags(f)[s]
    /\ ~Flags(f)[t]

\* -------------------------------------------------- claims: Booking Store
\* C7: the Booking Store never holds two Bookings for the same flight and seat
\* number.
C7_OneBookingPerSeat ==
  \A i, j \in DOMAIN bookings :
    (/\ bookings[i].Flight = bookings[j].Flight
     /\ bookings[i].SeatNumber = bookings[j].SeatNumber) => i = j

\* ---------------------------------------------- claims: search and facade
\* C8: a SearchFlights call on the facade returns every flight that AddFlight
\* has appended to the facade and that has the route and calendar day asked for.
C8_SearchSeesAddedFlights ==
  [][\A q \in Queries :
       SearchFlights(q.source, q.destination, q.date) =>
         \A i \in 1..Len(amsFlights) :
           Matches(heap[amsFlights[i]], q.source, q.destination, q.date) =>
             \E k \in 1..Len(found'.results) :
               found'.results[k] = amsFlights[i]]_vars

\* indices of the collection whose flight has the route and day of the last search
Hits ==
  {i \in 1..Len(fsFlights) :
     LET fl == heap[fsFlights[i]]
     IN /\ fl.Source = found.source
        /\ fl.Destination = found.destination
        /\ <<fl.Departure.year, fl.Departure.month, fl.Departure.day>>
             = <<found.date.year, found.date.month, found.date.day>>}

\* C9: SearchFlights returns exactly the flights of the collection with the
\* source, the destination and the year, month and day asked for: none of them
\* is missing and no other flight is returned.
C9_ExactlyMatching ==
  found # NoSearch =>
    /\ {found.results[k] : k \in 1..Len(found.results)}
         = {fsFlights[i] : i \in Hits}
    /\ Len(found.results) = Cardinality(Hits)

\* the search of spec section 8: one flight returned, one left out for its day
\* and one for its destination
C9_Witness ==
  /\ found # NoSearch
  /\ Len(fsFlights) = 3
  /\ Len(found.results) = 1
  /\ \E i \in 1..Len(fsFlights) :
       /\ heap[fsFlights[i]].Destination = found.destination
       /\ heap[fsFlights[i]].Departure.day # found.date.day
  /\ \E i \in 1..Len(fsFlights) :
       /\ heap[fsFlights[i]].Destination # found.destination
       /\ heap[fsFlights[i]].Departure.day = found.date.day

\* a is earlier than b
Earlier(a, b) ==
  \/ a.year < b.year
  \/ a.year = b.year /\ a.month < b.month
  \/ a.year = b.year /\ a.month = b.month /\ a.day < b.day
  \/ a.year = b.year /\ a.month = b.month /\ a.day = b.day /\ a.hour < b.hour

\* C10: the flights SearchFlights returns are in the order in which they stand
\* in the collection, whatever their departure times.
C10_InsertionOrder ==
  \A i, j \in 1..Len(found.results) :
    i < j =>
      \E p, q \in 1..Len(fsFlights) :
        /\ p < q
        /\ fsFlights[p] = found.results[i]
        /\ fsFlights[q] = found.results[j]

\* two flights returned, the later departure first
C10_Witness ==
  /\ Len(found.results) >= 2
  /\ Earlier(heap[found.results[2]].Departure, heap[found.results[1]].Departure)

\* C13: a failed seat booking tells the caller which failure occurred: what
\* BookSeat returns for an already-booked seat differs from what it returned
\* for a seat number outside [1, N].
C13_FailuresDistinguishable ==
  [][\A c \in Callers :
       ( /\ pc[c] = "L145"
         /\ pc'[c] = "idle"
         /\ last.flight \in FlightIds
         /\ OutOfRange(last.flight, last.seat) )
       => last'.result # last.result]_vars

\* C20: every seat's booked flag starts false when the flight is created, and
\* a flag that is true is true in every later state: false -> true is the only
\* transition a flag ever makes, under every interleaving of BookSeat calls.
C20_FlagMonotone ==
  /\ \A f \in FlightIds : \A s \in 1..NumSeats(f) : ~Flags(f)[s]
  /\ [][\A f \in FlightIds : \A s \in 1..NumSeats(f) :
          Flags(f)[s] => Flags(f)'[s]]_vars

\* a seat was booked, and a later call for it has returned false
C20_Witness ==
  \E f \in FlightIds : \E s \in 1..NumSeats(f) :
    /\ Flags(f)[s]
    /\ wins[f][s] >= 1
    /\ last = Returned(f, s, FALSE)

\* C15: AddBooking(b) stores b under b.BookingID, replacing an entry already
\* there and leaving the entries under all other ids as they are, and
\* GetBooking(id) returns the Booking of the last AddBooking call with that id.
\* (An AddBooking(b) step leaves b as the last Booking written under its id, so
\* the Bookings to look at are the last ones of the history after the step.)
C15_LastWriteWins ==
  [][ /\ \A b \in {written'[id].last : id \in DOMAIN written'} :
          AddBooking(b) =>
            /\ DOMAIN bookings' = DOMAIN bookings \cup {b.BookingID}
            /\ bookings'[b.BookingID] = b
            /\ \A id \in DOMAIN bookings \ {b.BookingID} :
                 bookings'[id] = bookings[id]
      /\ \A id \in BookingIds :
          (GetBooking(id) /\ id \in DOMAIN written) =>
            got'.result = written[id].last ]_vars

\* a lookup has returned the Booking that replaced a different one under its id,
\* with another id stored beside it
C15_Witness ==
  /\ got.id \in DOMAIN written
  /\ written[got.id].replaced
  /\ got.result = written[got.id].last
  /\ DOMAIN bookings = BookingIds

\* C16: GetBooking(id) is a pure lookup: for an id under which no Booking was
\* ever added it returns nil, which is not a Booking; for a stored id it returns
\* the stored Booking; either way the Booking Store is left as it was.
C16_PureLookup ==
  [][\A id \in BookingIds :
       GetBooking(id) =>
         /\ bookings' = bookings
         /\ id \notin DOMAIN written =>
              (got'.result = Nil /\ got'.result \notin Bookings)
         /\ id \in DOMAIN bookings =>
              (got'.result = bookings[id] /\ got'.result \in Bookings)]_vars

\* the last lookup asked for an id never added and found nothing, in a store
\* that holds a Booking under another id
C16_Witness ==
  /\ got.id \in BookingIds
  /\ got.id \notin DOMAIN written
  /\ got.result = Nil
  /\ bookings # <<>>

\* C18: booking ids are unique for the life of the process: AddBooking never
\* stores a Booking under an id that holds a different Booking.
C18_IdsNeverReused ==
  [][\A b \in Bookings :
       AddBooking(b) =>
         (b.BookingID \in DOMAIN bookings => bookings[b.BookingID] = b)]_vars

\* ---------------------------------------------------------- Payment Store
PaymentIds == {"PAY1", "PAY2"}
\* Payment.Amount is a float64; two amounts stand for them
Amounts    == {100, 250}
Methods    == {"card", "cash"}
Statuses   == {"PENDING", "PAID"}

NewPayment(paymentID, amount, method, status) ==
  [PaymentID |-> paymentID,
   Amount    |-> amount,
   Method    |-> method,
   Status    |-> status]

\* the Payments callers build with NewPayment
Payments ==
  {NewPayment(id, a, m, st) :
     id \in PaymentIds, a \in Amounts, m \in Methods, st \in Statuses}

\* the record of a ProcessPayment call in the history processed
Process(payment) ==
  [id \in DOMAIN processed \cup {payment.PaymentID} |->
     IF id = payment.PaymentID
       THEN [last     |-> payment,
             replaced |-> /\ id \in DOMAIN processed
                          /\ \/ processed[id].replaced
                             \/ processed[id].last # payment]
       ELSE processed[id]]

\* the linkage history after a ProcessPayment call: the amount and method of
\* the first Payment processed under an id once a Booking is linked
LinkPayment(payment) ==
  IF /\ payment.PaymentID \notin DOMAIN linked.payment
     /\ DOMAIN linked.booking # {}
    THEN [linked EXCEPT !.payment =
            [id \in DOMAIN linked.payment \cup {payment.PaymentID} |->
               IF id = payment.PaymentID
                 THEN [amount |-> payment.Amount, method |-> payment.Method]
                 ELSE linked.payment[id]]]
    ELSE linked

ProcessPaymentKeepFirst(payment) ==
  /\ payments' = IF payment.PaymentID \in DOMAIN payments
                   THEN payments
                   ELSE [id \in DOMAIN payments \cup {payment.PaymentID} |->
                           IF id = payment.PaymentID THEN payment ELSE payments[id]]
  /\ processed' = Process(payment)
  /\ linked' = LinkPayment(payment)

\* pp.payments[payment.PaymentID] = payment, under pp.mu.Lock()
ProcessPaymentL233(payment) ==
  /\ payments' = [id \in DOMAIN payments \cup {payment.PaymentID} |->
                    IF id = payment.PaymentID THEN payment ELSE payments[id]]
  /\ processed' = Process(payment)
  /\ linked' = LinkPayment(payment)

ProcessPayment(payment) ==
  /\ ProcessPaymentL233(payment)
  /\ UNCHANGED <<heap, seatVars, storeVars, facadeVars, searchVars, onceVars,
                 lockVars, sideVars>>

\* pp.payments[paymentID]: the value stored under the key, nil for a missing
\* key. PaymentProcessor has no method that reads the map; a lookup by payment
\* id is this map read.
PaymentAt(paymentID) ==
  IF paymentID \in DOMAIN payments THEN payments[paymentID] ELSE Nil

\* callers build Payments with NewPayment and hand them to the processor
PayNext == \E payment \in Payments : ProcessPayment(payment)

PaySpec == StoreInit /\ [][PayNext]_vars

FrameInit ==
  /\ heap = [f \in Catalog |->
               Scheduled(f, Schedules[((f - 1) % Len(Schedules)) + 1])]
  /\ SeatIdle
  /\ StoreEmpty
  /\ PayEmpty
  /\ Singletons
  /\ NotLinked
  /\ Unlocked
  /\ Aside
  /\ amsFlights = <<>>
  /\ amsAircrafts = <<>>
  /\ fsFlights = NewFlightSearch([i \in Catalog |-> i])
  /\ found = NoSearch

\* searches, while flight 1 and an aircraft are registered, seat 1 of flight 1
\* is booked, and a Booking and a Payment are stored
FrameNext ==
  \/ \E q \in Queries : SearchFlights(q.source, q.destination, q.date)
  \/ AddFlight(1)
  \/ AddAircraft(NewAircraft("N1", "A320", 1))
  \/ AddBooking(NewBooking("B1", 1, "P1", 1, Dep0))
  \/ ProcessPayment(NewPayment("PAY1", 100, "card", "PAID"))
  \/ \E c \in Callers : BookSeatCall(c, 1, 1)
  \/ \E c \in Callers : BookSeatRead(c)
  \/ \E c \in Callers : BookSeatWrite(c)

FrameSpec == FrameInit /\ [][FrameNext]_vars

\* C19: SearchFlights has no side effects: a search call leaves the flight
\* collections (of the facade and of the FlightSearch), the aircraft
\* collection, every seat flag of every flight, the Booking Store and the
\* Payment Store as they were.
C19_SearchHasNoSideEffects ==
  [][\A q \in Queries :
       SearchFlights(q.source, q.destination, q.date) =>
         /\ amsFlights' = amsFlights
         /\ fsFlights' = fsFlights
         /\ amsAircrafts' = amsAircrafts
         /\ \A f \in Catalog : Flags(f)' = Flags(f)
         /\ bookings' = bookings
         /\ payments' = payments]_vars

\* a search has returned a flight that is not the first of its collection, in
\* a system with a registered flight and aircraft, a booked seat, a stored
\* Booking and a stored Payment
C19_Witness ==
  /\ Len(found.results) >= 1
  /\ found.results[1] # fsFlights[1]
  /\ amsFlights # <<>>
  /\ amsAircrafts # <<>>
  /\ Flags(1)[1]
  /\ bookings # <<>>
  /\ payments # <<>>

\* ------------------------------------- the getters of the two singletons
\* GetBookingManager (lines 90-97) and GetPaymentProcessor (lines 221-228) are
\* the same code over their own sync.Once and instance variable. Once.Do loads
\* the done flag and returns when it is set; else it takes the mutex of the
\* Once, loads the flag again, and when it is still unset runs the function,
\* sets the flag and releases the mutex.
onceFrame == <<heap, seatVars, storeVars, facadeVars, searchVars, payVars, linked,
               lockVars, sideVars>>

At(c, g, at) == opc' = [opc EXCEPT ![c] = [getter |-> g, at |-> at]]

\* a caller enters the getter: lines 90 and 221
GetInstanceL90(c, g) ==
  /\ opc[c] = NoGetter
  /\ At(c, g, "Do")
  /\ UNCHANGED <<onceDone, onceMu, instance, made, rets>>

GetInstance(c, g) == GetInstanceL90(c, g) /\ UNCHANGED onceFrame

\* once.Do, fast path: the atomic load of the done flag
OnceDo(c) ==
  /\ opc[c].at = "Do"
  /\ At(c, opc[c].getter, IF onceDone[opc[c].getter] THEN "return" ELSE "Lock")
  /\ UNCHANGED <<onceDone, onceMu, instance, made, rets, onceFrame>>

OnceLockBroken(c) ==
  /\ opc[c].at = "Lock"
  /\ At(c, opc[c].getter, "check")
  /\ UNCHANGED <<onceDone, onceMu, instance, made, rets, onceFrame>>

\* once.Do, slow path: o.m.Lock()
OnceLock(c) ==
  /\ opc[c].at = "Lock"
  /\ onceMu[opc[c].getter] = 0
  /\ onceMu' = [onceMu EXCEPT ![opc[c].getter] = c]
  /\ At(c, opc[c].getter, "check")
  /\ UNCHANGED <<onceDone, instance, made, rets, onceFrame>>

\* once.Do, slow path: the second load of the done flag, under the mutex
OnceCheck(c) ==
  /\ opc[c].at = "check"
  /\ At(c, opc[c].getter, IF onceDone[opc[c].getter] THEN "Unlock" ELSE "f")
  /\ UNCHANGED <<onceDone, onceMu, instance, made, rets, onceFrame>>

\* lines 92-94 and 223-225: the function handed to Do builds a store with an
\* empty map and assigns its address to the instance variable
Construct(c) ==
  /\ opc[c].at = "f"
  /\ made' = [made EXCEPT ![opc[c].getter] = @ + 1]
  /\ instance' = [instance EXCEPT ![opc[c].getter] = made[opc[c].getter] + 1]
  /\ At(c, opc[c].getter, "Store")
  /\ UNCHANGED <<onceDone, onceMu, rets, onceFrame>>

\* once.Do, slow path: the deferred o.done.Store(1)
OnceStore(c) ==
  /\ opc[c].at = "Store"
  /\ onceDone' = [onceDone EXCEPT ![opc[c].getter] = TRUE]
  /\ At(c, opc[c].getter, "Unlock")
  /\ UNCHANGED <<onceMu, instance, made, rets, onceFrame>>

\* once.Do, slow path: the deferred o.m.Unlock()
OnceUnlock(c) ==
  /\ opc[c].at = "Unlock"
  /\ onceMu' = [onceMu EXCEPT ![opc[c].getter] = 0]
  /\ At(c, opc[c].getter, "return")
  /\ UNCHANGED <<onceDone, instance, made, rets, onceFrame>>

\* lines 96 and 227: return the instance variable
ReturnInstanceL96(c) ==
  /\ opc[c].at = "return"
  /\ rets' = [rets EXCEPT ![opc[c].getter] = @ \cup {instance[opc[c].getter]}]
  /\ opc' = [opc EXCEPT ![c] = NoGetter]
  /\ UNCHANGED <<onceDone, onceMu, instance, made>>

ReturnInstance(c) == ReturnInstanceL96(c) /\ UNCHANGED onceFrame

\* the process starts: no getter has been called, both instance variables are
\* nil
OnceInit ==
  /\ heap = [f \in FlightIds |->
               NewFlight(f, "SFO", "JFK", Dep0, Arr0,
                         NewAircraft("N1", "A320", MaxSeats))]
  /\ SeatIdle
  /\ StoreEmpty
  /\ PayEmpty
  /\ NotLinked
  /\ Unlocked
  /\ Aside
  /\ amsFlights = <<>>
  /\ amsAircrafts = <<>>
  /\ fsFlights = <<>>
  /\ found = NoSearch
  /\ opc = [c \in Callers |-> NoGetter]
  /\ onceDone = [g \in Getters |-> FALSE]
  /\ onceMu = [g \in Getters |-> 0]
  /\ instance = [g \in Getters |-> 0]
  /\ made = [g \in Getters |-> 0]
  /\ rets = [g \in Getters |-> {}]

\* concurrent callers of the two getters, again and again
OnceNext ==
  \/ \E c \in Callers, g \in Getters : GetInstance(c, g)
  \/ \E c \in Callers : OnceDo(c)
  \/ \E c \in Callers : OnceLock(c)
  \/ \E c \in Callers : OnceCheck(c)
  \/ \E c \in Callers : Construct(c)
  \/ \E c \in Callers : OnceStore(c)
  \/ \E c \in Callers : OnceUnlock(c)
  \/ \E c \in Callers : ReturnInstance(c)

OnceSpec == OnceInit /\ [][OnceNext]_vars

\* C14: under concurrent calls of GetBookingManager and of GetPaymentProcessor,
\* each store is constructed at most once, every call returns that one
\* instance, never nil and never a second store, and a caller that is about to
\* return finds the store constructed.
C14_OneInstance ==
  \A g \in Getters :
    /\ made[g] <= 1
    /\ rets[g] \subseteq {1}
    /\ \A c \in Callers :
         (opc[c].getter = g /\ opc[c].at = "return") =>
           (made[g] = 1 /\ instance[g] = 1)

\* two callers raced into the first call of a getter: caller 2 found the flag
\* unset, waited for the mutex and found the flag set under it, while caller 1
\* has returned the instance and is returning it again from a later call
C14_Witness ==
  \E g \in Getters :
    /\ made[g] = 1
    /\ rets[g] = {1}
    /\ opc[1] = [getter |-> g, at |-> "return"]
    /\ opc[2] = [getter |-> g, at |-> "Unlock"]

\* ------------------------------------------- booking and paying by callers
\* The facade has no operation that books or pays: a caller reserves the seat
\* with Flight.BookSeat, builds a Booking with NewBooking under an id it chooses
\* and hands it to AddBooking, and builds a Payment with NewPayment and hands it
\* to ProcessPayment.
FlowNext ==
  \/ \E c \in Callers, s \in {0, 1} : BookSeatCall(c, 1, s)
  \/ \E c \in Callers : BookSeatRead(c)
  \/ \E c \in Callers : BookSeatWrite(c)
  \/ \E p \in Passengers : AddBooking(NewBooking("B1", 1, p, 1, Dep0))
  \/ GetBooking("B1")
  \/ \E a \in Amounts : ProcessPayment(NewPayment("PAY1", a, "card", "PAID"))

FlowSpec == StoreInit /\ [][FlowNext]_vars

\* C11: once a Booking was stored for a reserved seat and a Payment processed
\* for it, the Booking found under the booking id has the flight, passenger and
\* seat number of that call, and the Payment found under the payment id has the
\* amount and method of that call.
C11_LinkageKept ==
  /\ \A id \in DOMAIN linked.booking :
       /\ BookingAt(id) \in Bookings
       /\ BookingAt(id).Flight = linked.booking[id].flight
       /\ BookingAt(id).Passenger = linked.booking[id].passenger
       /\ BookingAt(id).SeatNumber = linked.booking[id].seat
  /\ \A id \in DOMAIN linked.payment :
       /\ PaymentAt(id) \in Payments
       /\ PaymentAt(id).Amount = linked.payment[id].amount
       /\ PaymentAt(id).Method = linked.payment[id].method

\* a BookSeat call returns false: at line 143, or at line 146
BookSeatFails ==
  \/ issued' # issued /\ pc' = pc
  \/ \E c \in Callers : pc[c] = "L145" /\ pc'[c] = "idle"

\* C12: a failing BookSeat leaves the Booking Store and the Payment Store as
\* they were, and a Booking is added to the store only for a seat whose
\* reservation has returned true.
C12_BookingOnlyAfterReservation ==
  [][ /\ BookSeatFails => (bookings' = bookings /\ payments' = payments)
      /\ \A id \in DOMAIN bookings' :
           (id \notin DOMAIN bookings \/ bookings'[id] # bookings[id]) =>
             wins[bookings'[id].Flight][bookings'[id].SeatNumber] >= 1 ]_vars

\* ------------------------------------------------ claims: seats of a flight
\* C21: every Booking held in the Booking Store is for a seat whose booked flag
\* is true on the Booking's flight and whose reservation (Flight.BookSeat) has
\* returned true: no sequence of calls stores a Booking for a seat that was not
\* reserved.
C21_ReserveThenRecord ==
  \A id \in DOMAIN bookings :
    /\ Flags(bookings[id].Flight)[bookings[id].SeatNumber]
    /\ wins[bookings[id].Flight][bookings[id].SeatNumber] >= 1

\* C29: seat state is per flight: no step of a BookSeat call on flight A changes
\* a booked flag of another flight B, also when A and B fly the same Aircraft,
\* and a call that has begun can always take its next step, whatever the calls
\* on other flights do.
C29_SeatsPerFlight ==
  /\ [][\A c \in Callers : \A f \in FlightIds :
          (pc[c] # "idle" /\ arg[c].flight = f /\ pc'[c] # pc[c]) =>
            \A g \in FlightIds \ {f} : Flags(g)' = Flags(g)]_vars
  /\ [][issued' # issued => \A g \in FlightIds : Flags(g)' = Flags(g)]_vars
  /\ [](\A c \in Callers :
          /\ pc[c] = "L145" => ENABLED BookSeatRead(c)
          /\ pc[c] = "L148" => ENABLED BookSeatWrite(c))

\* two flights fly the same Aircraft; seat 1 is booked on one and free on the
\* other
C29_Witness ==
  \E f, g \in FlightIds :
    /\ f # g
    /\ heap[f].Aircraft = heap[g].Aircraft
    /\ NumSeats(f) >= 1
    /\ Flags(f)[1]
    /\ ~Flags(g)[1]

\* C30: NewFlight over an aircraft with TotalSeats = N creates exactly N seats,
\* the seat at index i (from 0) numbered i + 1, all unbooked, and in every
\* later state the flight has exactly those N seats with those numbers.
C30_SeatsFixed ==
  /\ \A f \in FlightIds : \A s \in 1..NumSeats(f) : ~heap[f].Seats[s].IsBooked
  /\ [](\A f \in FlightIds :
          /\ Len(heap[f].Seats) = heap[f].Aircraft.TotalSeats
          /\ \A i \in 0..(Len(heap[f].Seats) - 1) :
               heap[f].Seats[i + 1].SeatNumber = i + 1)
  /\ [][\A f \in FlightIds :
          /\ heap'[f].Aircraft = heap[f].Aircraft
          /\ Len(heap'[f].Seats) = Len(heap[f].Seats)
          /\ \A s \in 1..Len(heap[f].Seats) :
               heap'[f].Seats[s].SeatNumber = heap[f].Seats[s].SeatNumber]_vars

\* one flight has no seat, another has MaxSeats seats, the last of them booked
C30_Witness ==
  \E f, g \in FlightIds :
    /\ NumSeats(f) = 0
    /\ NumSeats(g) = MaxSeats
    /\ Flags(g)[MaxSeats]

\* --------------------------------------- sync.RWMutex and the facade's lock
\* RWMutex.Lock: waits until no goroutine holds either side, takes the write side
MuLock(l, c) ==
  /\ mu[l].writer = 0
  /\ mu[l].readers = {}
  /\ mu' = [mu EXCEPT ![l].writer = c]

\* RWMutex.Unlock
MuUnlock(l, c) == mu' = [mu EXCEPT ![l].writer = 0]

\* RWMutex.RLock: waits until no goroutine holds the write side
MuRLock(l, c) ==
  /\ mu[l].writer = 0
  /\ mu' = [mu EXCEPT ![l].readers = @ \cup {c}]

\* RWMutex.RUnlock
MuRUnlock(l, c) == mu' = [mu EXCEPT ![l].readers = @ \ {c}]

\* goroutine c stands at statement at of operation name
Inside(c, name, at) == op[c].name = name /\ op[c].at = at

Goto(c, at) == op' = [op EXCEPT ![c].at = at]

\* what the steps of the facade's operations leave as it is
amsFrame == <<heap, seatVars, storeVars, payVars, onceVars, linked, sideVars>>

\* ams.AddFlight(flight) is called
AddFlightCall(c, flight) ==
  /\ op[c].at = "idle"
  /\ hist.started < MaxLen
  /\ hist' = [hist EXCEPT !.started = @ + 1]
  /\ op' = [op EXCEPT ![c] = [name |-> "AddFlight", at |-> "L45",
                              arg |-> [flight |-> flight],
                              local |-> [flights |-> <<>>]]]
  /\ UNCHANGED <<mu, facadeVars, searchVars, amsFrame>>

AddFlightL45NoLock(c) ==
  /\ Inside(c, "AddFlight", "L45")
  /\ Goto(c, "L47")
  /\ UNCHANGED <<mu, hist, facadeVars, searchVars, amsFrame>>

\* line 45: ams.mu.Lock()
AddFlightL45(c) ==
  /\ Inside(c, "AddFlight", "L45")
  /\ MuLock("ams.mu", c)
  /\ Goto(c, "L47")
  /\ UNCHANGED <<hist, facadeVars, searchVars, amsFrame>>

\* line 47, right-hand side: ams.flights is read
AddFlightL47Read(c) ==
  /\ Inside(c, "AddFlight", "L47")
  /\ op' = [op EXCEPT ![c].at = "L47=", ![c].local.flights = amsFlights]
  /\ UNCHANGED <<mu, hist, facadeVars, searchVars, amsFrame>>

\* line 47, assignment: ams.flights = append(the slice read, flight)
AddFlightL47Write(c) ==
  /\ Inside(c, "AddFlight", "L47=")
  /\ amsFlights' = Append(op[c].local.flights, op[c].arg.flight)
  /\ Goto(c, "L46")
  /\ UNCHANGED <<mu, hist, amsAircrafts, searchVars, amsFrame>>

\* line 46, deferred: ams.mu.Unlock(), and AddFlight returns
AddFlightL46(c) ==
  /\ Inside(c, "AddFlight", "L46")
  /\ MuUnlock("ams.mu", c)
  /\ hist' = [hist EXCEPT !.flights = Append(@, op[c].arg.flight)]
  /\ op' = [op EXCEPT ![c] = NoOp]
  /\ UNCHANGED <<facadeVars, searchVars, amsFrame>>

\* ams.AddAircraft(aircraft) is called
AddAircraftCall(c, aircraft) ==
  /\ op[c].at = "idle"
  /\ hist.started < MaxLen
  /\ hist' = [hist EXCEPT !.started = @ + 1]
  /\ op' = [op EXCEPT ![c] = [name |-> "AddAircraft", at |-> "L51",
                              arg |-> aircraft,
                              local |-> [aircrafts |-> <<>>]]]
  /\ UNCHANGED <<mu, facadeVars, searchVars, amsFrame>>

\* line 51: ams.mu.Lock()
AddAircraftL51(c) ==
  /\ Inside(c, "AddAircraft", "L51")
  /\ MuLock("ams.mu", c)
  /\ Goto(c, "L53")
  /\ UNCHANGED <<hist, facadeVars, searchVars, amsFrame>>

\* line 53, right-hand side: ams.aircrafts is read
AddAircraftL53Read(c) ==
  /\ Inside(c, "AddAircraft", "L53")
  /\ op' = [op EXCEPT ![c].at = "L53=", ![c].local.aircrafts = amsAircrafts]
  /\ UNCHANGED <<mu, hist, facadeVars, searchVars, amsFrame>>

\* line 53, assignment: ams.aircrafts = append(the slice read, aircraft)
AddAircraftL53Write(c) ==
  /\ Inside(c, "AddAircraft", "L53=")
  /\ amsAircrafts' = Append(op[c].local.aircrafts, op[c].arg)
  /\ Goto(c, "L52")
  /\ UNCHANGED <<mu, hist, amsFlights, searchVars, amsFrame>>

\* line 52, deferred: ams.mu.Unlock(), and AddAircraft returns
AddAircraftL52(c) ==
  /\ Inside(c, "AddAircraft", "L52")
  /\ MuUnlock("ams.mu", c)
  /\ hist' = [hist EXCEPT !.aircrafts = Append(@, op[c].arg)]
  /\ op' = [op EXCEPT ![c] = NoOp]
  /\ UNCHANGED <<facadeVars, searchVars, amsFrame>>

\* ams.SearchFlights(source, destination, date) is called: lines 56-57 take no
\* lock and hand the call to ams.flightSearch. local.seen keeps what the
\* facade's collection was at the call.
SearchFlightsCall(c, q) ==
  /\ op[c].at = "idle"
  /\ hist.started < MaxLen
  /\ hist' = [hist EXCEPT !.started = @ + 1]
  /\ op' = [op EXCEPT ![c] = [name |-> "SearchFlights", at |-> "L165", arg |-> q,
                              local |-> [seen |-> amsFlights, flights |-> <<>>]]]
  /\ UNCHANGED <<mu, facadeVars, searchVars, amsFrame>>

\* line 165: range fs.flights evaluates the slice once
SearchFlightsL165(c) ==
  /\ Inside(c, "SearchFlights", "L165")
  /\ op' = [op EXCEPT ![c].at = "L166", ![c].local.flights = fsFlights]
  /\ UNCHANGED <<mu, hist, facadeVars, searchVars, amsFrame>>

\* lines 166-174: the traversal of that slice, and the return of the results
SearchFlightsL174(c) ==
  /\ Inside(c, "SearchFlights", "L166")
  /\ found' = [source |-> op[c].arg.source, destination |-> op[c].arg.destination,
               date |-> op[c].arg.date,
               results |-> SearchLoop(op[c].local.flights, 1, <<>>, op[c].arg.source,
                                      op[c].arg.destination, op[c].arg.date)]
  /\ op' = [op EXCEPT ![c] = NoOp]
  /\ UNCHANGED <<mu, hist, facadeVars, fsFlights, amsFrame>>

\* goroutines call AddFlight, AddAircraft and SearchFlights of one facade at the
\* same time
AmsNext ==
  \/ \E c \in Callers, f \in FlightIds : AddFlightCall(c, f)
  \/ \E c \in Callers : AddFlightL45(c)
  \/ \E c \in Callers : AddFlightL47Read(c)
  \/ \E c \in Callers : AddFlightL47Write(c)
  \/ \E c \in Callers : AddFlightL46(c)
  \/ \E c \in Callers : AddAircraftCall(c, NewAircraft("N1", "A320", 1))
  \/ \E c \in Callers : AddAircraftL51(c)
  \/ \E c \in Callers : AddAircraftL53Read(c)
  \/ \E c \in Callers : AddAircraftL53Write(c)
  \/ \E c \in Callers : AddAircraftL52(c)
  \/ \E c \in Callers : SearchFlightsCall(c, [source |-> "SFO", destination |-> "JFK",
                                             date |-> Time(2024, 1, 1, 0)])
  \/ \E c \in Callers : SearchFlightsL165(c)
  \/ \E c \in Callers : SearchFlightsL174(c)

AmsSpec == FacadeInit /\ [][AmsNext]_vars

\* ------------------------------------------ the stores, statement by statement
\* what the steps of the stores' operations leave as it is
lockFrame == <<heap, seatVars, facadeVars, searchVars, onceVars, sideVars>>

\* the outcome of a map read that runs while another goroutine writes the map:
\* the Go runtime may stop the program (concurrent map read and map write)
Fatal == [fatal |-> TRUE]

\* bm.AddBooking(booking) is called
AddBookingCall(c, booking) ==
  /\ op[c].at = "idle"
  /\ hist.started < MaxLen
  /\ hist' = [hist EXCEPT !.started = @ + 1]
  /\ op' = [op EXCEPT ![c] = [name |-> "AddBooking", at |-> "L100",
                              arg |-> booking, local |-> Nil]]
  /\ UNCHANGED <<mu, storeVars, payVars, linked, lockFrame>>

AddBookingL100NoLock(c) ==
  /\ Inside(c, "AddBooking", "L100")
  /\ Goto(c, "L102")
  /\ UNCHANGED <<mu, hist, storeVars, payVars, linked, lockFrame>>

\* line 100: bm.mu.Lock()
AddBookingL100(c) ==
  /\ Inside(c, "AddBooking", "L100")
  /\ MuLock("bm.mu", c)
  /\ Goto(c, "L102")
  /\ UNCHANGED <<hist, storeVars, payVars, linked, lockFrame>>

\* line 102: the map assignment begins
AddBookingL102Begin(c) ==
  /\ Inside(c, "AddBooking", "L102")
  /\ Goto(c, "L102=")
  /\ UNCHANGED <<mu, hist, storeVars, payVars, linked, lockFrame>>

\* line 102: the map holds the Booking. The lookups of the same id that are in
\* progress note the value in local.seen, the values the key held since their call.
AddBookingL102End(c) ==
  /\ Inside(c, "AddBooking", "L102=")
  /\ AddBookingL102(op[c].arg)
  /\ op' = [d \in Callers |->
              IF d = c THEN [op[c] EXCEPT !.at = "L101"]
              ELSE IF op[d].name = "GetBooking"
                      /\ op[d].arg.bookingID = op[c].arg.BookingID
                THEN [op[d] EXCEPT !.local.seen = @ \cup {op[c].arg}]
                ELSE op[d]]
  /\ UNCHANGED <<mu, hist, got, payVars, lockFrame>>

AddBookingL101KeepsLock(c) ==
  /\ Inside(c, "AddBooking", "L101")
  /\ op' = [op EXCEPT ![c] = NoOp]
  /\ UNCHANGED <<mu, hist, storeVars, payVars, linked, lockFrame>>

\* line 101, deferred: bm.mu.Unlock(), and AddBooking returns
AddBookingL101(c) ==
  /\ Inside(c, "AddBooking", "L101")
  /\ MuUnlock("bm.mu", c)
  /\ op' = [op EXCEPT ![c] = NoOp]
  /\ UNCHANGED <<hist, storeVars, payVars, linked, lockFrame>>

\* bm.GetBooking(bookingID) is called
GetBookingCall(c, bookingID) ==
  /\ op[c].at = "idle"
  /\ hist.started < MaxLen
  /\ hist' = [hist EXCEPT !.started = @ + 1]
  /\ op' = [op EXCEPT ![c] = [name |-> "GetBooking", at |-> "L106",
                              arg |-> [bookingID |-> bookingID],
                              local |-> [seen |-> {BookingAt(bookingID)}]]]
  /\ UNCHANGED <<mu, storeVars, payVars, linked, lockFrame>>

GetBookingL106NoLock(c) ==
  /\ Inside(c, "GetBooking", "L106")
  /\ Goto(c, "L108")
  /\ UNCHANGED <<mu, hist, storeVars, payVars, linked, lockFrame>>

\* line 106: bm.mu.RLock()
GetBookingL106(c) ==
  /\ Inside(c, "GetBooking", "L106")
  /\ MuRLock("bm.mu", c)
  /\ Goto(c, "L108")
  /\ UNCHANGED <<hist, storeVars, payVars, linked, lockFrame>>

\* line 108: the map read; next to a map assignment in progress it is a data
\* race, which yields the value under the key or stops the program
GetBookingL108Read(c) ==
  /\ Inside(c, "GetBooking", "L108")
  /\ \/ GetBookingL108(op[c].arg.bookingID)
     \/ /\ \E d \in Callers : Inside(d, "AddBooking", "L102=")
        /\ got' = [id |-> op[c].arg.bookingID, result |-> Fatal]
        /\ UNCHANGED <<bookings, written>>
  /\ Goto(c, "L107")
  /\ UNCHANGED <<mu, hist, payVars, linked, lockFrame>>

\* line 107, deferred: bm.mu.RUnlock(), and GetBooking returns
GetBookingL107(c) ==
  /\ Inside(c, "GetBooking", "L107")
  /\ MuRUnlock("bm.mu", c)
  /\ op' = [op EXCEPT ![c] = NoOp]
  /\ UNCHANGED <<hist, storeVars, payVars, linked, lockFrame>>

\* pp.ProcessPayment(payment) is called
ProcessPaymentCall(c, payment) ==
  /\ op[c].at = "idle"
  /\ hist.started < MaxLen
  /\ hist' = [hist EXCEPT !.started = @ + 1]
  /\ op' = [op EXCEPT ![c] = [name |-> "ProcessPayment", at |-> "L231",
                              arg |-> payment, local |-> Nil]]
  /\ UNCHANGED <<mu, storeVars, payVars, linked, lockFrame>>

\* line 231: pp.mu.Lock()
ProcessPaymentL231(c) ==
  /\ Inside(c, "ProcessPayment", "L231")
  /\ MuLock("pp.mu", c)
  /\ Goto(c, "L233")
  /\ UNCHANGED <<hist, storeVars, payVars, linked, lockFrame>>

ProcessPaymentL233ClearsBookings(c) ==
  /\ Inside(c, "ProcessPayment", "L233")
  /\ ProcessPaymentL233(op[c].arg)
  /\ Goto(c, "L232")
  /\ bookings' = <<>>
  /\ UNCHANGED <<mu, hist, got, written, lockFrame>>

\* line 233: the map assignment
ProcessPaymentL233Write(c) ==
  /\ Inside(c, "ProcessPayment", "L233")
  /\ ProcessPaymentL233(op[c].arg)
  /\ Goto(c, "L232")
  /\ UNCHANGED <<mu, hist, storeVars, lockFrame>>

ProcessPaymentL232KeepsLock(c) ==
  /\ Inside(c, "ProcessPayment", "L232")
  /\ op' = [op EXCEPT ![c] = NoOp]
  /\ UNCHANGED <<mu, hist, storeVars, payVars, linked, lockFrame>>

\* line 232, deferred: pp.mu.Unlock(), and ProcessPayment returns
ProcessPaymentL232(c) ==
  /\ Inside(c, "ProcessPayment", "L232")
  /\ MuUnlock("pp.mu", c)
  /\ op' = [op EXCEPT ![c] = NoOp]
  /\ UNCHANGED <<hist, storeVars, payVars, linked, lockFrame>>

\* goroutines store and look up Bookings under one id, look up an id never
\* stored, and process Payments under one id, at the same time
LockNext ==
  \/ \E c \in Callers, p \in Passengers :
       AddBookingCall(c, NewBooking("B1", 1, p, 1, Dep0))
  \/ \E c \in Callers : AddBookingL100(c)
  \/ \E c \in Callers : AddBookingL102Begin(c)
  \/ \E c \in Callers : AddBookingL102End(c)
  \/ \E c \in Callers : AddBookingL101(c)
  \/ \E c \in Callers, id \in BookingIds : GetBookingCall(c, id)
  \/ \E c \in Callers : GetBookingL106(c)
  \/ \E c \in Callers : GetBookingL108Read(c)
  \/ \E c \in Callers : GetBookingL107(c)
  \/ \E c \in Callers, a \in Amounts :
       ProcessPaymentCall(c, NewPayment("PAY1", a, "card", "PAID"))
  \/ \E c \in Callers : ProcessPaymentL231(c)
  \/ \E c \in Callers : ProcessPaymentL233Write(c)
  \/ \E c \in Callers : ProcessPaymentL232(c)

LockSpec == StoreInit /\ [][LockNext]_vars

\* ------------------------------------------------- all operations together
\* goroutine c is in no operation
Free(c) == pc[c] = "idle" /\ opc[c] = NoGetter /\ op[c].at = "idle"

\* a goroutine has a store once the store's getter has returned it
Has(g) == rets[g] # {}

\* lines 37-38: a facade exists once NewAirlineManagementSystem has called both
\* getters
Built == Has("GetBookingManager") /\ Has("GetPaymentProcessor")

\* a goroutine in no operation calls one, while calls are left of n
Enter(c, n) == Free(c) /\ hist.started + issued < n

\* a getter is called: lines 90 and 221
GetInstanceCall(c, g) ==
  /\ GetInstanceL90(c, g)
  /\ hist' = [hist EXCEPT !.started = @ + 1]
  /\ UNCHANGED <<heap, seatVars, storeVars, facadeVars, searchVars, payVars, linked,
                 op, mu, sideVars>>

\* the locks goroutine c holds: either side of the three RWMutexes, and the
\* mutexes of the two Onces
Held(c) ==
  {l \in Locks : mu[l].writer = c \/ c \in mu[l].readers}
    \cup {g \in Getters : onceMu[g] = c}

\* the steps goroutine c takes inside an operation it has called
Step(c) ==
  \/ OnceDo(c) \/ OnceLock(c) \/ OnceCheck(c) \/ Construct(c)
  \/ OnceStore(c) \/ OnceUnlock(c) \/ ReturnInstance(c)
  \/ AddFlightL45(c) \/ AddFlightL47Read(c) \/ AddFlightL47Write(c)
  \/ AddFlightL46(c)
  \/ AddAircraftL51(c) \/ AddAircraftL53Read(c) \/ AddAircraftL53Write(c)
  \/ AddAircraftL52(c)
  \/ SearchFlightsL165(c) \/ SearchFlightsL174(c)
  \/ BookSeatRead(c) \/ BookSeatWrite(c)
  \/ AddBookingL100(c) \/ AddBookingL102Begin(c) \/ AddBookingL102End(c)
  \/ AddBookingL101(c)
  \/ GetBookingL106(c) \/ GetBookingL108Read(c) \/ GetBookingL107(c)
  \/ ProcessPaymentL231(c) \/ ProcessPaymentL233Write(c) \/ ProcessPaymentL232(c)

\* the calls goroutine c makes, of n calls in all
Call(c, n) ==
  \/ \E g \in Getters : Enter(c, n) /\ GetInstanceCall(c, g)
  \/ Enter(c, n) /\ Built /\ AddFlightCall(c, 1)
  \/ Enter(c, n) /\ Built /\ AddAircraftCall(c, NewAircraft("N1", "A320", MaxSeats))
  \/ Enter(c, n) /\ Built
       /\ SearchFlightsCall(c, [source |-> "SFO", destination |-> "JFK", date |-> Dep0])
  \/ Enter(c, n) /\ BookSeatCall(c, 1, 1)
  \/ Enter(c, n) /\ Has("GetBookingManager")
       /\ AddBookingCall(c, NewBooking("B1", 1, "P1", 1, Dep0))
  \/ Enter(c, n) /\ Has("GetBookingManager") /\ GetBookingCall(c, "B1")
  \/ Enter(c, n) /\ Has("GetPaymentProcessor")
       /\ ProcessPaymentCall(c, NewPayment("PAY1", 100, "card", "PAID"))

\* the process has started; each getter has not been called yet, or has been
\* called and has returned its store
CoreInit ==
  /\ heap = [f \in FlightIds |->
               NewFlight(f, "SFO", "JFK", Dep0, Arr0,
                         NewAircraft("N1", "A320", MaxSeats))]
  /\ SeatIdle
  /\ StoreEmpty
  /\ PayEmpty
  /\ NotLinked
  /\ Unlocked
  /\ Aside
  /\ amsFlights = <<>>
  /\ amsAircrafts = <<>>
  /\ fsFlights = <<>>
  /\ found = NoSearch
  /\ opc = [c \in Callers |-> NoGetter]
  /\ onceMu = [g \in Getters |-> 0]
  /\ \E called \in SUBSET Getters :
       /\ onceDone = [g \in Getters |-> g \in called]
       /\ instance = [g \in Getters |-> IF g \in called THEN 1 ELSE 0]
       /\ made = [g \in Getters |-> IF g \in called THEN 1 ELSE 0]
       /\ rets = [g \in Getters |-> IF g \in called THEN {1} ELSE {}]

\* goroutines call the getters and, with what these return, every operation of
\* the core, at the same time
CoreNext ==
  \/ \E c \in Callers : Call(c, MaxLen)
  \/ \E c \in Callers : Step(c)

CoreSpec == CoreInit /\ [][CoreNext]_vars

\* as many calls as there are goroutines
LiveNext ==
  \/ \E c \in Callers : Call(c, NumCallers)
  \/ \E c \in Callers : Step(c)

\* the scheduler lets every goroutine that can take a step take one in the end
LiveSpec == CoreInit /\ [][LiveNext]_vars /\ \A c \in Callers : WF_vars(Step(c))

\* ------------------------------------------------------- several facades
\* what the construction of a facade and the operations through a facade
\* leave as it is
multiFrame == <<heap, seatVars, facadeVars, searchVars, mu, logger, publisher,
                turnstile>>

\* NewAirlineManagementSystem() is called: lines 33-36, the two empty slices
NewAmsCall(c) ==
  /\ Free(c)
  /\ hist.started < NumCallers
  /\ hist' = [hist EXCEPT !.started = @ + 1]
  /\ op' = [op EXCEPT ![c] = [name |-> "NewAirlineManagementSystem", at |-> "L37",
                              arg |-> Nil,
                              local |-> [bookingManager |-> 0,
                                         paymentProcessor |-> 0]]]
  /\ UNCHANGED <<facades, storeVars, payVars, linked, onceVars, multiFrame>>

\* line 37: GetBookingManager() is called
NewAmsL37(c) ==
  /\ Inside(c, "NewAirlineManagementSystem", "L37")
  /\ GetInstanceL90(c, "GetBookingManager")
  /\ Goto(c, "L37=")
  /\ UNCHANGED <<hist, facades, storeVars, payVars, linked, multiFrame>>

NewAmsL37Fresh(c) ==
  /\ Inside(c, "NewAirlineManagementSystem", "L37=")
  /\ ReturnInstanceL96(c)
  /\ op' = [op EXCEPT ![c].at = "L38",
                      ![c].local.bookingManager = Len(facades) + 2]
  /\ UNCHANGED <<hist, facades, storeVars, payVars, linked, multiFrame>>

\* line 37: GetBookingManager() returns, the field takes what it returned
NewAmsL37Return(c) ==
  /\ Inside(c, "NewAirlineManagementSystem", "L37=")
  /\ ReturnInstanceL96(c)
  /\ op' = [op EXCEPT ![c].at = "L38",
                      ![c].local.bookingManager = instance[opc[c].getter]]
  /\ UNCHANGED <<hist, facades, storeVars, payVars, linked, multiFrame>>

\* line 38: GetPaymentProcessor() is called
NewAmsL38(c) ==
  /\ Inside(c, "NewAirlineManagementSystem", "L38")
  /\ GetInstanceL90(c, "GetPaymentProcessor")
  /\ Goto(c, "L38=")
  /\ UNCHANGED <<hist, facades, storeVars, payVars, linked, multiFrame>>

\* line 38: GetPaymentProcessor() returns, the field takes what it returned
NewAmsL38Return(c) ==
  /\ Inside(c, "NewAirlineManagementSystem", "L38=")
  /\ ReturnInstanceL96(c)
  /\ op' = [op EXCEPT ![c].at = "L40",
                      ![c].local.paymentProcessor = instance[opc[c].getter]]
  /\ UNCHANGED <<hist, facades, storeVars, payVars, linked, multiFrame>>

\* lines 33-41: the facade object with its own two slices, the two stores and
\* a FlightSearch over its flights slice. stored and looked note the booking
\* ids stored through this facade and those a lookup through it has found, paid
\* the payment ids stored through it.
NewAmsL40(c) ==
  /\ Inside(c, "NewAirlineManagementSystem", "L40")
  /\ facades' = Append(facades,
                       [flights          |-> <<>>,
                        aircrafts        |-> <<>>,
                        flightSearch     |-> NewFlightSearch(<<>>),
                        bookingManager   |-> op[c].local.bookingManager,
                        paymentProcessor |-> op[c].local.paymentProcessor,
                        stored           |-> {},
                        looked           |-> {},
                        paid             |-> {}])
  /\ op' = [op EXCEPT ![c] = NoOp]
  /\ UNCHANGED <<hist, storeVars, payVars, linked, onceVars, multiFrame>>

\* the facades built so far
Facades == 1..Len(facades)

\* facades[i].AddFlight(flight): line 47 on that facade's slice
FacadeAddFlight(i, flight) ==
  /\ Len(facades[i].flights) < 1
  /\ facades' = [facades EXCEPT ![i].flights = Append(@, flight)]
  /\ UNCHANGED <<op, hist, storeVars, payVars, linked, onceVars, multiFrame>>

\* facades[i].AddAircraft(aircraft): line 53 on that facade's slice
FacadeAddAircraft(i, aircraft) ==
  /\ Len(facades[i].aircrafts) < 1
  /\ facades' = [facades EXCEPT ![i].aircrafts = Append(@, aircraft)]
  /\ UNCHANGED <<op, hist, storeVars, payVars, linked, onceVars, multiFrame>>

\* facades[i].bookingManager.AddBooking(booking); bookings is the map of the
\* store the getter built, store number 1
FacadeAddBooking(i, booking) ==
  /\ facades[i].bookingManager = 1
  /\ AddBookingL102(booking)
  /\ facades' = [facades EXCEPT ![i].stored = @ \cup {booking.BookingID}]
  /\ UNCHANGED <<op, hist, got, payVars, onceVars, multiFrame>>

\* facades[i].bookingManager.GetBooking(bookingID)
FacadeGetBooking(i, bookingID) ==
  /\ facades[i].bookingManager = 1
  /\ GetBookingL108(bookingID)
  /\ facades' = [facades EXCEPT
                   ![i].looked = IF BookingAt(bookingID) = Nil
                                   THEN @ ELSE @ \cup {bookingID}]
  /\ UNCHANGED <<op, hist, payVars, linked, onceVars, multiFrame>>

\* facades[i].paymentProcessor.ProcessPayment(payment); payments is the map of
\* the processor the getter built, processor number 1
FacadeProcessPayment(i, payment) ==
  /\ facades[i].paymentProcessor = 1
  /\ ProcessPaymentL233(payment)
  /\ facades' = [facades EXCEPT ![i].paid = @ \cup {payment.PaymentID}]
  /\ UNCHANGED <<op, hist, storeVars, onceVars, multiFrame>>

\* goroutines build facades at the same time, from the start of the process,
\* and flights, Bookings and Payments go through the facades built
MultiNext ==
  \/ \E c \in Callers : NewAmsCall(c)
  \/ \E c \in Callers : NewAmsL37(c)
  \/ \E c \in Callers : NewAmsL37Return(c)
  \/ \E c \in Callers : NewAmsL38(c)
  \/ \E c \in Callers : NewAmsL38Return(c)
  \/ \E c \in Callers : NewAmsL40(c)
  \/ \E c \in Callers : OnceDo(c)
  \/ \E c \in Callers : OnceLock(c)
  \/ \E c \in Callers : OnceCheck(c)
  \/ \E c \in Callers : Construct(c)
  \/ \E c \in Callers : OnceStore(c)
  \/ \E c \in Callers : OnceUnlock(c)
  \/ \E i \in Facades : FacadeAddFlight(i, 1)
  \/ \E i \in Facades : FacadeAddAircraft(i, NewAircraft("N1", "A320", MaxSeats))
  \/ \E i \in Facades : FacadeAddBooking(i, NewBooking("B1", 1, "P1", 1, Dep0))
  \/ \E i \in Facades : FacadeGetBooking(i, "B1")
  \/ \E i \in Facades : FacadeProcessPayment(i, NewPayment("PAY1", 100, "card", "PAID"))

MultiSpec == OnceInit /\ [][MultiNext]_vars

\* C36: every facade NewAirlineManagementSystem has built holds the one
\* Booking Store and the one Payment Store, the instances the two getters
\* built; a Booking or Payment stored through one facade is in the map every
\* facade's store field leads to, and a lookup through any facade of a
\* Booking stored through any facade returns that Booking; a facade starts
\* with empty flight and aircraft collections of its own, and an append to the
\* collections of one facade leaves those of every other facade as they were.
C36_SharedStores ==
  /\ [](\A i \in Facades :
          /\ facades[i].bookingManager = 1
          /\ facades[i].bookingManager = instance["GetBookingManager"]
          /\ facades[i].paymentProcessor = 1
          /\ facades[i].paymentProcessor = instance["GetPaymentProcessor"]
          /\ \A j \in Facades :
                /\ facades[j].bookingManager = facades[i].bookingManager
                /\ facades[j].paymentProcessor = facades[i].paymentProcessor
          /\ facades[i].stored \subseteq DOMAIN bookings
          /\ facades[i].paid \subseteq DOMAIN payments)
  /\ [][/\ (got' # got /\ \E k \in Facades : got'.id \in facades[k].stored)
           => (/\ got'.result # Nil
               /\ got'.result = written[got'.id].last)
        /\ (Len(facades') # Len(facades))
           => (/\ Len(facades') = Len(facades) + 1
               /\ facades'[Len(facades')].flights = <<>>
               /\ facades'[Len(facades')].aircrafts = <<>>
               /\ facades'[Len(facades')].flightSearch = <<>>
               /\ \A j \in Facades : facades'[j] = facades[j])
        /\ \A i \in Facades :
             (\/ facades'[i].flights # facades[i].flights
              \/ facades'[i].aircrafts # facades[i].aircrafts)
             => \A j \in Facades \ {i} :
                  /\ facades'[j].flights = facades[j].flights
                  /\ facades'[j].aircrafts = facades[j].aircrafts]_vars

\* two facades: a Booking and a Payment went in through the first, the lookup
\* through the second found the Booking, and only the first has a flight
C36_Witness ==
  /\ Len(facades) = 2
  /\ "B1" \in facades[1].stored
  /\ "B1" \notin facades[2].stored
  /\ "B1" \in facades[2].looked
  /\ "PAY1" \in facades[1].paid
  /\ "PAY1" \in DOMAIN payments
  /\ got.result = bookings["B1"]
  /\ facades[1].flights = <<1>>
  /\ facades[2].flights = <<>>
  /\ facades[2].aircrafts = <<>>

\* ------------------------------------- claims: the facade under concurrency
\* the flights that match the query, out of a collection, in its order
Filter(flights, q) ==
  SearchLoop(flights, 1, <<>>, q.source, q.destination, q.date)

\* C22: a SearchFlights call that runs next to AddFlight calls returns the
\* matching flights of the facade's collection as it stood at some instant
\* between the call and the return: of a collection that holds at least what
\* was appended before the call and at most what is appended at the return.
C22_SearchSnapshot ==
  [][\A c \in Callers :
       (Inside(c, "SearchFlights", "L166") /\ op'[c].at = "idle") =>
         \E n \in Len(op[c].local.seen)..Len(amsFlights) :
           found'.results = Filter(SubSeq(amsFlights, 1, n), op[c].arg)]_vars

\* C23: while a search traverses the collection it holds the read side of
\* ams.mu, and no AddFlight or AddAircraft call is at its append.
C23_SearchExcludesAppend ==
  \A c \in Callers :
    Inside(c, "SearchFlights", "L166") =>
      /\ c \in mu["ams.mu"].readers
      /\ \A d \in Callers :
           ~(/\ op[d].name \in {"AddFlight", "AddAircraft"}
             /\ op[d].at \in {"L47", "L47=", "L53", "L53="})

\* how many times x stands in seq
Count(x, seq) == Cardinality({i \in 1..Len(seq) : seq[i] = x})

\* the goroutines whose call has appended and not returned
Appended(name, at) == {c \in Callers : Inside(c, name, at)}

\* C24: AddFlight and AddAircraft append atomically: the flight collection
\* holds each flight exactly as many times as AddFlight calls with it have
\* returned or have appended and are about to return, and so for the aircraft
\* collection; none is lost or duplicated, whether the calls ran one after
\* the other or at the same time. The steps of AddFlight leave the aircraft
\* collection as it is and the steps of AddAircraft the flight collection.
C24_AppendAtomic ==
  /\ [](/\ \A f \in FlightIds :
             Count(f, amsFlights) =
               Count(f, hist.flights)
                 + Cardinality({c \in Appended("AddFlight", "L46") :
                                  op[c].arg.flight = f})
         /\ Len(amsFlights) =
               Len(hist.flights) + Cardinality(Appended("AddFlight", "L46"))
         /\ \A a \in {NewAircraft("N1", "A320", 1)} :
             Count(a, amsAircrafts) =
               Count(a, hist.aircrafts)
                 + Cardinality({c \in Appended("AddAircraft", "L52") :
                                  op[c].arg = a})
         /\ Len(amsAircrafts) =
               Len(hist.aircrafts) + Cardinality(Appended("AddAircraft", "L52")))
  /\ [][\A c \in Callers :
          /\ (op[c].name = "AddFlight" /\ op'[c].at # op[c].at) =>
               amsAircrafts' = amsAircrafts
          /\ (op[c].name = "AddAircraft" /\ op'[c].at # op[c].at) =>
               amsFlights' = amsFlights
          /\ (op[c].at = "idle" /\ op'[c].at # "idle") =>
               (amsFlights' = amsFlights /\ amsAircrafts' = amsAircrafts)]_vars

\* one AddFlight call has returned, a second has appended and still holds the
\* lock, and an AddAircraft call of another goroutine waits for that lock
C24_Witness ==
  /\ Len(hist.flights) >= 1
  /\ Len(amsFlights) = Len(hist.flights) + 1
  /\ \E c, d \in Callers :
       /\ Inside(c, "AddFlight", "L46")
       /\ Inside(d, "AddAircraft", "L51")

\* ------------------------------------- claims: the stores under concurrency
\* the goroutines inside the map access of the Booking Store and of the Payment
\* Store: past the lock call and not past the unlock
BookingWriters ==
  {c \in Callers : op[c].name = "AddBooking" /\ op[c].at \in {"L102", "L102=", "L101"}}

BookingReaders ==
  {c \in Callers : op[c].name = "GetBooking" /\ op[c].at \in {"L108", "L107"}}

PaymentWriters ==
  {c \in Callers : op[c].name = "ProcessPayment" /\ op[c].at \in {"L233", "L232"}}

\* C25: in every reachable state at most one writer is inside the map access
\* of the Booking Store, and while one is inside no reader is; at most one
\* writer is inside the map access of the Payment Store. Readers are not
\* limited in number.
C25_ReadersWriters ==
  /\ Cardinality(BookingWriters) <= 1
  /\ BookingWriters # {} => BookingReaders = {}
  /\ Cardinality(PaymentWriters) <= 1

\* two GetBooking readers are inside at the same time, after a write
C25_Witness ==
  /\ Cardinality(BookingReaders) >= 2
  /\ "B1" \in DOMAIN written

\* C26: the map read of a GetBooking(id) call returns a value the key id held
\* at some instant since the call: what was stored under id at the call
\* (possibly nothing) or a Booking an AddBooking call has stored under id
\* since; and it returns the Booking of the last AddBooking that has stored
\* under id, if there is one.
C26_AllOrNothing ==
  [][\A c \in Callers :
       (Inside(c, "GetBooking", "L108") /\ op'[c].at = "L107") =>
         LET id == op[c].arg.bookingID
         IN /\ got'.id = id
            /\ got'.result \in op[c].local.seen
            /\ id \in DOMAIN written => got'.result = written[id].last
            /\ id \notin DOMAIN written => got'.result = Nil]_vars

\* a lookup was called before an AddBooking of its id replaced the Booking
\* stored under the id, read the map after it and got the new Booking
C26_Witness ==
  \E c \in Callers :
    /\ Inside(c, "GetBooking", "L107")
    /\ Cardinality(op[c].local.seen) >= 2
    /\ got.id = op[c].arg.bookingID
    /\ got.result = written[got.id].last
    /\ written[got.id].replaced

\* ----------------------------------------------- claims: locks and progress
\* C27: in every reachable state a goroutine holds at most one lock, of the
\* facade's lock, the Booking Store's lock, the Payment Store's lock and the
\* two Once mutexes; a goroutine inside Flight.BookSeat holds none, so no lock
\* taken for a seat is held when the Booking Store's lock is taken.
C27_NoNestedLocks ==
  \A c \in Callers :
    /\ Cardinality(Held(c)) <= 1
    /\ pc[c] # "idle" => Held(c) = {}
    /\ mu["bm.mu"].writer = c => pc[c] = "idle"

\* after a reservation has returned true one goroutine holds the Booking
\* Store's lock and another the Payment Store's lock
C27_Witness ==
  \E c, d \in Callers :
    /\ c # d
    /\ wins[1][1] >= 1
    /\ Held(c) = {"bm.mu"}
    /\ Held(d) = {"pp.mu"}

\* C28: under fair scheduling every operation a goroutine has called returns,
\* and a goroutine that is in no operation holds no lock; while an operation
\* is in progress some goroutine can take a step.
C28_Terminates ==
  /\ [](\A c \in Callers : Free(c) => Held(c) = {})
  /\ []((\E c \in Callers : ~Free(c)) => \E c \in Callers : ENABLED Step(c))
  /\ \A c \in Callers : ~Free(c) ~> Free(c)

\* a goroutine waits for the write side of the Booking Store's lock while
\* another holds the read side
C28_Witness ==
  \E c, d \in Callers :
    /\ c # d
    /\ Inside(c, "AddBooking", "L100")
    /\ d \in mu["bm.mu"].readers
    /\ ~ENABLED AddBookingL100(c)

\* ------------------------------------------------ claims: frame and growth
\* C31: no step of BookSeat, AddFlight, AddAircraft, SearchFlights, the store
\* operations or the getters changes a flight's number, source, destination,
\* departure, arrival or aircraft; no flight appears or disappears.
C31_FlightImmutable ==
  [][/\ DOMAIN heap' = DOMAIN heap
     /\ \A f \in DOMAIN heap :
          /\ heap'[f].FlightNumber = heap[f].FlightNumber
          /\ heap'[f].Source = heap[f].Source
          /\ heap'[f].Destination = heap[f].Destination
          /\ heap'[f].Departure = heap[f].Departure
          /\ heap'[f].Arrival = heap[f].Arrival
          /\ heap'[f].Aircraft = heap[f].Aircraft]_vars

\* seat 1 of flight 1 is booked, flight 1 has been added to the facade and a
\* Booking for it is stored
C31_Witness ==
  /\ Flags(1)[1]
  /\ Len(hist.flights) >= 1
  /\ "B1" \in DOMAIN bookings
  /\ heap[1].Destination = "JFK"

\* C32: the Booking Store only grows: no step takes a booking id out of the
\* map, and a GetBooking(id) made once an AddBooking has stored under id
\* returns a Booking, never nil.
C32_StoreGrows ==
  [][/\ DOMAIN bookings \subseteq DOMAIN bookings'
     /\ (got' # got /\ got'.id \in DOMAIN written) =>
          (got'.result # Nil /\ got'.result.BookingID = got'.id)]_vars

\* both ids are stored, one of them for the second time with another Booking,
\* and the last lookup returned the Booking under that id
C32_Witness ==
  /\ DOMAIN bookings = BookingIds
  /\ written["B1"].replaced
  /\ got.id = "B1"
  /\ got.result = bookings["B1"]

\* ------------------------------------------- claims: rejected registrations
\* C33: in every reachable state the facade's aircraft collection holds no two
\* aircraft with the same tail number, since AddAircraft rejects a tail number
\* that is registered already.
C33_UniqueTailNumbers ==
  \A i, j \in 1..Len(amsAircrafts) :
    amsAircrafts[i].TailNumber = amsAircrafts[j].TailNumber => i = j

\* the flights and the aircraft registered with the facade
RegisteredFlights == {amsFlights[i] : i \in 1..Len(amsFlights)}

RegisteredAircraft == {amsAircrafts[i] : i \in 1..Len(amsAircrafts)}

\* C34: every flight in the facade's flight collection flies an aircraft of
\* the facade's aircraft collection, and every stored Booking is for a flight
\* of the flight collection, since references to entities never registered
\* are rejected.
C34_OnlyRegisteredReferences ==
  /\ \A f \in RegisteredFlights : heap[f].Aircraft \in RegisteredAircraft
  /\ \A id \in DOMAIN bookings : bookings[id].Flight \in RegisteredFlights

\* C35: the steps of AddBooking and GetBooking, from the call to the return,
\* leave the Payment Store, the flight and aircraft collections and every
\* flight with its seat flags as they are; the steps of ProcessPayment leave
\* the Booking Store, the collections and every flight as they are.
C35_StoresIndependent ==
  [][\A c \in Callers :
       LET name == IF op[c].at = "idle" THEN op'[c].name ELSE op[c].name
       IN /\ (op'[c].at # op[c].at /\ name \in {"AddBooking", "GetBooking"}) =>
               /\ payments' = payments
               /\ amsFlights' = amsFlights
               /\ amsAircrafts' = amsAircrafts
               /\ heap' = heap
          /\ (op'[c].at # op[c].at /\ name = "ProcessPayment") =>
               /\ bookings' = bookings
               /\ amsFlights' = amsFlights
               /\ amsAircrafts' = amsAircrafts
               /\ heap' = heap]_vars

\* a Booking and a Payment are stored and seat 1 of flight 1 is booked
C35_Witness ==
  /\ "B1" \in DOMAIN bookings
  /\ "PAY1" \in DOMAIN payments
  /\ Flags(1)[1]
  /\ \A c \in Callers : op[c].at = "idle"

\* ------------------------------------------------- state tutorial: turnstile
\* what the turnstile's methods leave as it is
turnstileFrame == <<heap, seatVars, storeVars, facadeVars, searchVars, payVars,
                    onceVars, linked, lockVars, facades, logger, publisher>>

\* fmt.Println(line)
Println(t, line) == [t EXCEPT !.printed = Append(@, line)]

\* func (t *Turnstile) SetState(s State)
SetState(t, s) == [t EXCEPT !.state = s]

\* func (ls *LockedState) Coin(context *Turnstile)
LockedStateCoin(context) ==
  SetState(Println(context, "Coin inserted. Turnstile is now unlocked."), "Unlocked")

LockedStatePushesThrough(context) ==
  Println(context, "Pushed through. Turnstile is now locked.")

\* func (ls *LockedState) Push(context *Turnstile)
LockedStatePush(context) == Println(context, "Turnstile is locked. Cannot push.")

\* func (us *UnlockedState) Coin(context *Turnstile)
UnlockedStateCoin(context) ==
  Println(context, "Coin inserted, but turnstile is already unlocked. Returning coin.")

\* func (us *UnlockedState) Push(context *Turnstile)
UnlockedStatePush(context) ==
  SetState(Println(context, "Pushed through. Turnstile is now locked."), "Locked")

\* func (t *Turnstile) Coin(): t.state.Coin(t)
Coin ==
  /\ Len(turnstile.printed) < 2 * MaxLen
  /\ turnstile' = IF turnstile.state = "Locked"
                    THEN LockedStateCoin(turnstile)
                    ELSE UnlockedStateCoin(turnstile)
  /\ UNCHANGED turnstileFrame

\* func (t *Turnstile) Push(): t.state.Push(t)
Push ==
  /\ Len(turnstile.printed) < 2 * MaxLen
  /\ turnstile' = IF turnstile.state = "Locked"
                    THEN LockedStatePush(turnstile)
                    ELSE UnlockedStatePush(turnstile)
  /\ UNCHANGED turnstileFrame

\* a program builds a turnstile with NewTurnstile and calls Coin and Push in
\* any order
TurnstileNext == Coin \/ Push

TurnstileSpec == StoreInit /\ [][TurnstileNext]_vars

\* the lines printed by a Coin call, and the line printed by a push-through
CoinLines ==
  {"Coin inserted. Turnstile is now unlocked.",
   "Coin inserted, but turnstile is already unlocked. Returning coin."}

PushedThrough == "Pushed through. Turnstile is now locked."

\* C39: the turnstile starts Locked and is always Locked or Unlocked; Coin in
\* Locked moves to Unlocked, Push in Unlocked moves to Locked, Push in Locked
\* and Coin in Unlocked leave the state as it is; every push-through follows a
\* Coin call made since the push-through before it.
C39_Turnstile ==
  /\ turnstile.state = "Locked"
  /\ [](turnstile.state \in {"Locked", "Unlocked"})
  /\ [][/\ Coin => turnstile'.state = "Unlocked"
        /\ Push => turnstile'.state = "Locked"]_vars
  /\ [](\A i \in 1..Len(turnstile.printed) :
          turnstile.printed[i] = PushedThrough =>
            \E j \in 1..(i - 1) :
              /\ turnstile.printed[j] \in CoinLines
              /\ \A k \in (j + 1)..(i - 1) : turnstile.printed[k] # PushedThrough)

\* the run of the tutorial's main: push while locked, coin, coin, push through
C39_Witness ==
  turnstile = [state |-> "Locked",
               printed |-> <<"Turnstile is locked. Cannot push.",
                             "Coin inserted. Turnstile is now unlocked.",
                             "Coin inserted, but turnstile is already unlocked. Returning coin.",
                             "Pushed through. Turnstile is now locked.">>]

\* ---------------------------------------------- observer tutorial: publisher
\* what the publisher's methods leave as it is
publisherFrame == <<heap, seatVars, storeVars, facadeVars, searchVars, payVars,
                    onceVars, linked, lockVars, facades, logger, turnstile>>

\* sub1, sub2, sub3 of main, by name
Subscribers == {"Alice", "Bob", "Charlie"}

Messages == {"Breaking News: Observer Pattern Implemented!"}

\* func (ns *NewsSubscriber) Update(message string): the line printed
Update(printed, name, message) ==
  Append(printed, [subscriber |-> name, message |-> message])

\* func (np *NewsPublisher) Attach(observer Observer)
Attach(observer) ==
  /\ Len(publisher.observers) < MaxLen
  /\ publisher' = [publisher EXCEPT !.observers = Append(@, observer),
                                    !.detached = @ \ {observer}]
  /\ UNCHANGED publisherFrame

\* lines 69-74: the loop of Detach from index i on; at the first element equal
\* to observer it cuts that element out and breaks
RECURSIVE DetachLoop(_, _, _)
DetachLoop(observers, i, observer) ==
  IF i > Len(observers)
    THEN observers
    ELSE IF observers[i] = observer
           THEN SubSeq(observers, 1, i - 1) \o SubSeq(observers, i + 1, Len(observers))
           ELSE DetachLoop(observers, i + 1, observer)

\* func (np *NewsPublisher) Detach(observer Observer). detached notes the
\* observers whose Detach has returned and that were not attached since.
Detach(observer) ==
  /\ publisher' = [publisher EXCEPT
                     !.observers = DetachLoop(@, 1, observer),
                     !.detached = @ \cup {observer}]
  /\ UNCHANGED publisherFrame

\* lines 78-80: the loop of Notify from index i on
RECURSIVE NotifyLoop(_, _, _, _)
NotifyLoop(observers, i, printed, message) ==
  IF i > Len(observers)
    THEN printed
    ELSE NotifyLoop(observers, i + 1, Update(printed, observers[i], message), message)

\* func (np *NewsPublisher) Notify(message string)
Notify(message) ==
  /\ Len(publisher.printed) + Len(publisher.observers) <= MaxLen + 2
  /\ publisher' = [publisher EXCEPT
                     !.printed = NotifyLoop(publisher.observers, 1, @, message)]
  /\ UNCHANGED publisherFrame

\* a program attaches and detaches the three subscribers and notifies, in any
\* order
PublisherNext ==
  \/ \E o \in Subscribers : Attach(o)
  \/ \E o \in Subscribers : Detach(o)
  \/ \E message \in Messages : Notify(message)

PublisherSpec == StoreInit /\ [][PublisherNext]_vars

\* the subscribers the lines from index n + 1 on went to, in order
Receivers(printed, n) == [i \in 1..(Len(printed) - n) |-> printed[n + i].subscriber]

\* C38: a Notify call delivers the message to every attached observer in
\* attach order, and to no observer whose Detach has returned (and that was
\* not attached again since).
C38_NotifyAfterDetach ==
  [][\A message \in Messages :
       Notify(message) =>
         LET to == Receivers(publisher'.printed, Len(publisher.printed))
         IN /\ to = publisher.observers
            /\ \A i \in 1..Len(to) :
                 /\ publisher'.printed[Len(publisher.printed) + i].message = message
                 /\ to[i] \notin publisher.detached]_vars

\* ------------------------------------------- singleton tutorial: GetInstance
\* what GetInstance leaves as it is
loggerFrame == <<heap, seatVars, storeVars, facadeVars, searchVars, payVars,
                 onceVars, linked, lockVars, facades, publisher, turnstile>>

\* goroutine c stands at line of the variant in use
LoggerAt(c, variant, line) == logger.variant = variant /\ logger.at[c] = line

\* the first statement of GetInstance in each variant
FirstLine(variant) ==
  CASE variant = "once"   -> "L62"
    [] variant = "mutex"  -> "L146"
    [] variant = "eager"  -> "L177"
    [] variant = "simple" -> "L202"

\* a goroutine calls GetInstance
LoggerGetInstance(c) ==
  /\ logger.at[c] = "idle"
  /\ logger.started < MaxCalls
  /\ logger' = [logger EXCEPT !.at[c] = FirstLine(logger.variant),
                              !.started = @ + 1]
  /\ UNCHANGED loggerFrame

\* return instance: lines 67, 151, 177, 205
LoggerReturn(c) ==
  [logger EXCEPT !.at[c] = "idle", !.rets = @ \cup {logger.instance}]

\* instance = &Logger{...}: lines 63, 149, 203
LoggerCreate(c, line) ==
  [logger EXCEPT !.at[c] = line, !.made = @ + 1, !.instance = logger.made + 1]

\* sync.Once variant, line 62: once.Do, the atomic load of the done flag
OnceL62(c) ==
  /\ LoggerAt(c, "once", "L62")
  /\ logger' = [logger EXCEPT !.at[c] = IF logger.done THEN "L67" ELSE "L62.Lock"]
  /\ UNCHANGED loggerFrame

\* once.Do, slow path: the mutex of the Once is taken
OnceL62Lock(c) ==
  /\ LoggerAt(c, "once", "L62.Lock")
  /\ logger.mu = 0
  /\ logger' = [logger EXCEPT !.at[c] = "L62.check", !.mu = c]
  /\ UNCHANGED loggerFrame

\* once.Do, slow path: the second load of the done flag, under the mutex
OnceL62Check(c) ==
  /\ LoggerAt(c, "once", "L62.check")
  /\ logger' = [logger EXCEPT !.at[c] = IF logger.done THEN "L62.Unlock" ELSE "L63"]
  /\ UNCHANGED loggerFrame

\* lines 63-65: the function handed to Do
OnceL63(c) ==
  /\ LoggerAt(c, "once", "L63")
  /\ logger' = LoggerCreate(c, "L62.Store")
  /\ UNCHANGED loggerFrame

\* once.Do, slow path: the done flag is set
OnceL62Store(c) ==
  /\ LoggerAt(c, "once", "L62.Store")
  /\ logger' = [logger EXCEPT !.at[c] = "L62.Unlock", !.done = TRUE]
  /\ UNCHANGED loggerFrame

\* once.Do, slow path: the mutex of the Once is released
OnceL62Unlock(c) ==
  /\ LoggerAt(c, "once", "L62.Unlock")
  /\ logger' = [logger EXCEPT !.at[c] = "L67", !.mu = 0]
  /\ UNCHANGED loggerFrame

\* line 67: return instance
OnceL67(c) ==
  /\ LoggerAt(c, "once", "L67")
  /\ logger' = LoggerReturn(c)
  /\ UNCHANGED loggerFrame

\* sync.Mutex variant, line 146: mu.Lock()
MutexL146(c) ==
  /\ LoggerAt(c, "mutex", "L146")
  /\ logger.mu = 0
  /\ logger' = [logger EXCEPT !.at[c] = "L148", !.mu = c]
  /\ UNCHANGED loggerFrame

\* line 148: if instance == nil
MutexL148(c) ==
  /\ LoggerAt(c, "mutex", "L148")
  /\ logger' = [logger EXCEPT !.at[c] = IF logger.instance = 0 THEN "L149" ELSE "L151"]
  /\ UNCHANGED loggerFrame

\* line 149: instance = &Logger{level: "INFO"}
MutexL149(c) ==
  /\ LoggerAt(c, "mutex", "L149")
  /\ logger' = LoggerCreate(c, "L151")
  /\ UNCHANGED loggerFrame

\* line 151: return instance, and line 147, deferred: mu.Unlock()
MutexL151(c) ==
  /\ LoggerAt(c, "mutex", "L151")
  /\ logger' = [LoggerReturn(c) EXCEPT !.mu = 0]
  /\ UNCHANGED loggerFrame

\* eager variant, line 177: return instance
EagerL177(c) ==
  /\ LoggerAt(c, "eager", "L177")
  /\ logger' = LoggerReturn(c)
  /\ UNCHANGED loggerFrame

\* Simple Example, line 202: if instance == nil, with no lock
SimpleL202(c) ==
  /\ LoggerAt(c, "simple", "L202")
  /\ logger' = [logger EXCEPT !.at[c] = IF logger.instance = 0 THEN "L203" ELSE "L205"]
  /\ UNCHANGED loggerFrame

\* line 203: instance = new(singleton)
SimpleL203(c) ==
  /\ LoggerAt(c, "simple", "L203")
  /\ logger' = LoggerCreate(c, "L205")
  /\ UNCHANGED loggerFrame

\* line 205: return instance
SimpleL205(c) ==
  /\ LoggerAt(c, "simple", "L205")
  /\ logger' = LoggerReturn(c)
  /\ UNCHANGED loggerFrame

\* the package of one of the four variants has been loaded
LoggerInit ==
  /\ heap = [f \in FlightIds |->
               NewFlight(f, "SFO", "JFK", Dep0, Arr0,
                         NewAircraft("N1", "A320", MaxSeats))]
  /\ SeatIdle
  /\ StoreEmpty
  /\ PayEmpty
  /\ Singletons
  /\ NotLinked
  /\ Unlocked
  /\ NewAirlineManagementSystem
  /\ facades = <<>>
  /\ publisher = NewNewsPublisher
  /\ turnstile = NewTurnstile
  /\ \E variant \in Variants : logger = NewLogger(variant)

\* goroutines call GetInstance at the same time
LoggerNext ==
  \/ \E c \in Callers : LoggerGetInstance(c)
  \/ \E c \in Callers : OnceL62(c)
  \/ \E c \in Callers : OnceL62Lock(c)
  \/ \E c \in Callers : OnceL62Check(c)
  \/ \E c \in Callers : OnceL63(c)
  \/ \E c \in Callers : OnceL62Store(c)
  \/ \E c \in Callers : OnceL62Unlock(c)
  \/ \E c \in Callers : OnceL67(c)
  \/ \E c \in Callers : MutexL146(c)
  \/ \E c \in Callers : MutexL148(c)
  \/ \E c \in Callers : MutexL149(c)
  \/ \E c \in Callers : MutexL151(c)
  \/ \E c \in Callers : EagerL177(c)
  \/ \E c \in Callers : SimpleL202(c)
  \/ \E c \in Callers : SimpleL203(c)
  \/ \E c \in Callers : SimpleL205(c)

LoggerSpec == LoggerInit /\ [][LoggerNext]_vars

\* C37: in each variant of GetInstance, for any calls from any goroutines, at
\* most one instance is ever created, exactly one once a call has returned,
\* and every call returns that instance.
C37_OneInstance ==
  /\ logger.made <= 1
  /\ logger.rets # {} => (logger.made = 1 /\ logger.rets = {1})

====
